---- MODULE Spec2Model ----
(***************************************************************************)
(* Model of the multi-protocol device gateway (bayars/k8s-gateway):        *)
(*   - the device registry and its FQDN resolver (internal/config),        *)
(*   - the command service dispatcher (internal/grpc),                     *)
(*   - the gNMI telemetry proxy (internal/gnmi),                           *)
(*   - the SSH bastion (internal/ssh).                                     *)
(* Go strings are sequences of one-character strings, so that Split, the   *)
(* resolver and the target parser are computed as the code computes them.  *)
(***************************************************************************)
EXTENDS Integers, Sequences, FiniteSets, TLC

VARIABLES
    cfg,      \* the device registry (Config.Devices): device name -> DeviceConfig
    pc,       \* position of the unary handler under way: "idle" or "done"
    req,      \* the request (input) of the last handler call
    resp,     \* what the last handler call returned
    lookups,  \* the FQDNs handed to GetDeviceByFQDN by the last call, in order
    calls,    \* the backend dials (adapter invocations) of the last call, in order
    sess,     \* StreamCommand's locals: what the first message bound for the stream,
              \* with the commands received (got) and, by the number of their
              \* request, the responses written (sent) so far, and the backend
              \* connections open on the stream's behalf now (open) and at most
              \* so far (peak)
    c2b,      \* Subscribe's client-to-backend pump: idle, recv, send, eof, failed
    b2c,      \* Subscribe's backend-to-client pump: idle, recv, send, eof, failed
    errChan,  \* Subscribe's completion channel: the reports not yet received
    reports,  \* every report ever sent on errChan, in order, with its pump
    toBackend, \* the client messages sent on the backend stream, by number
    toClient, \* the backend responses sent on the client stream, by number
    closeSend, \* whether the backend stream was half-closed (CloseSend)
    nrecv,    \* client messages stream.Recv has returned so far
    nresp,    \* backend responses backendStream.Recv has returned so far
    backendConn, \* the backend handle of Subscribe: none, open, closed
    bastion,  \* the BastionServer: the files it is built from, its key table,
              \* its listener
    session   \* one inbound SSH connection of the bastion and its session channel

subVars == <<c2b, b2c, errChan, reports, toBackend, toClient, closeSend, nrecv, nresp,
            backendConn>>

bastionVars == <<bastion, session>>

vars == <<cfg, pc, req, resp, lookups, calls, sess, subVars, bastionVars>>

\* no Subscribe under way
SubIdle ==
    /\ c2b = "idle"
    /\ b2c = "idle"
    /\ errChan = <<>>
    /\ reports = <<>>
    /\ toBackend = <<>>
    /\ toClient = <<>>
    /\ closeSend = FALSE
    /\ nrecv = 0
    /\ nresp = 0
    /\ backendConn = "none"

(***************************************************************************)
(* Bounds of the model.                                                    *)
(***************************************************************************)
\* longest input string of the pure functions (resolver, target parser)
MaxLen == 5

(***************************************************************************)
(* Strings.                                                                *)
(***************************************************************************)
Chars == {"a", "b", ".", ":"}

StrUpTo(alphabet, n) == UNION {[1..k -> alphabet] : k \in 0..n}

Strings == StrUpTo(Chars, MaxLen)

\* strings.Split(s, sep) for a one-byte separator: one part more than the
\* number of separators, the empty string giving the single part "".
RECURSIVE Split(_, _)
Split(s, sep) ==
    IF \E i \in 1..Len(s) : s[i] = sep
    THEN LET m == CHOOSE i \in 1..Len(s) :
                      s[i] = sep /\ \A j \in 1..(i - 1) : s[j] # sep
         IN <<SubSeq(s, 1, m - 1)>> \o Split(SubSeq(s, m + 1, Len(s)), sep)
    ELSE <<s>>

(***************************************************************************)
(* The device registry.                                                    *)
(***************************************************************************)
DeviceConfig(h, s, t, n, g) ==
    [Hostname |-> h, SSHPort |-> s, TelnetPort |-> t, NetconfPort |-> n, GNMIPort |-> g]

NoDevice == [Hostname |-> "<nil>"]

\* the nil error
Nil == "<nil>"

\* A registry as LoadConfig leaves it: any YAML mapping, its ports as written
\* (an omitted port is 0), no defaults applied.
RegistryEmpty == [k \in {} |-> NoDevice]

RegistryLab ==
    [k \in {<<"a">>, <<"b">>} |->
        IF k = <<"a">>
        THEN DeviceConfig("h1", 22, 23, 830, 57400)
        ELSE DeviceConfig("h2", 0, 0, 0, 0)]

RegistryOdd ==
    [k \in {<<"a">>, <<"a", ".", "b">>, <<>>} |->
        IF k = <<"a">>
        THEN DeviceConfig("h1", 2222, 0, 8300, 0)
        ELSE IF k = <<>>
             THEN DeviceConfig("h0", 22, 2323, 0, 50000)
             ELSE DeviceConfig("h3", 22, 23, 830, 57400)]

Registries == {RegistryEmpty, RegistryLab, RegistryOdd}

\* Config.GetDeviceByFQDN with the first label taken from the wrong end
GetDeviceByFQDN_LastLabel(c, fqdn) ==
    LET parts == Split(fqdn, ".")
        deviceName == parts[Len(parts)]
    IN IF Len(parts) < 1
       THEN [device |-> NoDevice, deviceName |-> <<>>, err |-> "invalid FQDN format"]
       ELSE IF deviceName \notin DOMAIN c
            THEN [device |-> NoDevice, deviceName |-> <<>>, err |-> "device not found"]
            ELSE [device |-> c[deviceName], deviceName |-> deviceName, err |-> Nil]

\* Config.GetDeviceByFQDN: (device, deviceName, err)
GetDeviceByFQDN(c, fqdn) ==
    LET parts == Split(fqdn, ".")
        deviceName == parts[1]
    IN IF Len(parts) < 1
       THEN [device |-> NoDevice, deviceName |-> <<>>, err |-> "invalid FQDN format"]
       ELSE IF deviceName \notin DOMAIN c
            THEN [device |-> NoDevice, deviceName |-> <<>>, err |-> "device not found"]
            ELSE [device |-> c[deviceName], deviceName |-> deviceName, err |-> Nil]

(***************************************************************************)
(* The gNMI target parser.                                                 *)
(***************************************************************************)
Admin == <<"a", "d", "m", "i", "n">>

DefaultSecret == <<"N", "o", "k", "i", "a", "S", "r", "l", "1", "!">>

\* Server.parseTarget with the third part never read
parseTarget_NoSecret(target) ==
    LET parts == Split(target, ":")
    IN [fqdn |-> parts[1],
        username |-> IF Len(parts) >= 2 THEN parts[2] ELSE Admin,
        password |-> DefaultSecret,
        err |-> Nil]

\* Server.parseTarget: (fqdn, username, password, err)
parseTarget(target) ==
    LET parts == Split(target, ":")
    IN [fqdn |-> parts[1],
        username |-> IF Len(parts) >= 2 THEN parts[2] ELSE Admin,
        password |-> IF Len(parts) >= 3 THEN parts[3] ELSE DefaultSecret,
        err |-> Nil]

(***************************************************************************)
(* The bastion before it is built, and a connection before it is accepted. *)
(***************************************************************************)
\* the host private-key file and the authorized-keys file as NewBastionServer
\* finds them; no BastionServer yet
NoBastion(hostKeyFile, authFile) ==
    [state |-> "none", hostKeyFile |-> hostKeyFile, authFile |-> authFile,
     authorizedKeys |-> {}, err |-> "<nil>", listener |-> "none", acceptErrors |-> 0]

\* ptyRequestMsg as handleSession initialises it
DefaultTermInfo == [Term |-> "xterm-256color", Columns |-> 80, Rows |-> 24]

\* no inbound connection
\* no forwarding: neither copy of handleDirectTCPIP runs
NoForward == [client |-> "open", target |-> "open", toClient |-> FALSE, toTarget |-> FALSE]

\* no session request handled yet, no pty-req parsed yet
NoRequest == [type |-> "", reply |-> ""]

NoPty == [fields |-> -1, Term |-> "", Columns |-> 0, Rows |-> 0]

NoBackendPty == [term |-> "", h |-> 0, w |-> 0]

NoWinch == [Rows |-> 0, Columns |-> 0, h |-> 0, w |-> 0, to |-> 0, open |-> 0]

NoSecretRead == [err |-> "", echo |-> <<>>, opened |-> 0]

NoConn ==
    [conn |-> "none", offered |-> <<>>, verdicts |-> <<>>, key |-> "", user |-> <<>>,
     handled |-> 0,
     channel |-> "none",
     mode |-> "", at |-> "", cause |-> "", gone |-> FALSE,
     termInfo |-> DefaultTermInfo, device |-> NoDevice, username |-> <<>>,
     \* backend: the backend connections open now; opened: those dialed so far
     password |-> <<>>, backend |-> 0, opened |-> 0,
     \* direct-tcpip: the two ends, and the io.Copy goroutines still running
     fwd |-> NoForward,
     \* the session request handled last with its reply, and the payload of
     \* the last pty-req that could be parsed
     request |-> NoRequest, pty |-> NoPty,
     \* the last RequestPty on a backend session; the backend sessions (by
     \* their number among those dialed) whose window-change goroutine ranges
     \* over the requests of the channel; the last WindowChange call made
     backendPty |-> NoBackendPty, watchers |-> {}, winch |-> NoWinch,
     \* the read at the `Password: ` prompt of the handoff under way or last
     \* made: its error, what it wrote to the channel, and the backend
     \* connections opened after it
     secret |-> NoSecretRead]

\* no bastion built and no connection to it
BastionIdle ==
    /\ bastion = NoBastion([state |-> "absent"], [state |-> "absent"])
    /\ session = NoConn

(***************************************************************************)
(* The pure functions applied to every bounded input.                      *)
(***************************************************************************)
NoResp == [kind |-> "none"]

\* StreamCommand's locals before the first message: device == nil
NoSession ==
    [init |-> FALSE, device |-> NoDevice, deviceName |-> <<>>, username |-> <<>>,
     password |-> <<>>, protocol |-> "", served |-> 0, got |-> <<>>, sent |-> <<>>,
     open |-> 0, peak |-> 0]

InitPure ==
    /\ cfg \in Registries
    /\ pc = "idle"
    /\ req \in {[op |-> "input", s |-> s] : s \in Strings}
    /\ resp = NoResp
    /\ lookups = <<>>
    /\ calls = <<>>
    /\ sess = NoSession
    /\ SubIdle
    /\ BastionIdle

Resolve ==
    /\ pc = "idle"
    /\ pc' = "done"
    /\ req' = [req EXCEPT !.op = "resolve"]
    /\ resp' = GetDeviceByFQDN(cfg, req.s)
    /\ lookups' = <<req.s>>
    /\ UNCHANGED <<bastionVars, subVars, cfg, calls, sess>>

ParseTarget ==
    /\ pc = "idle"
    /\ pc' = "done"
    /\ req' = [req EXCEPT !.op = "parse"]
    /\ resp' = parseTarget(req.s)
    /\ UNCHANGED <<bastionVars, subVars, cfg, lookups, calls, sess>>

NextPure == Resolve \/ ParseTarget

SpecPure == InitPure /\ [][NextPure]_vars

(***************************************************************************)
(* Claims about the resolver and the target parser (SpecPure).             *)
(***************************************************************************)
\* the text before the first "." of s, said without Split
FirstLabel(s) ==
    LET n == CHOOSE n \in 0..Len(s) :
                 /\ \A i \in 1..n : s[i] # "."
                 /\ (n = Len(s) \/ s[n + 1] = ".")
    IN SubSeq(s, 1, n)

NoColon(s) == \A k \in 1..Len(s) : s[k] # ":"

Resolved == pc = "done" /\ req.op = "resolve"

Parsed == pc = "done" /\ req.op = "parse"

\* C1: resolve succeeds exactly when the text before the first "." of the FQDN
\* is a key of the registry; it then returns that key's entry and that key as
\* the device name, whatever follows the first dot; otherwise it fails with
\* the device-not-found error.
C1_RoutingDeterminism ==
    Resolved =>
        LET label == FirstLabel(req.s)
        IN IF label \in DOMAIN cfg
           THEN resp = [device |-> cfg[label], deviceName |-> label, err |-> Nil]
           ELSE resp = [device |-> NoDevice, deviceName |-> <<>>,
                        err |-> "device not found"]

\* a multi-label FQDN that is itself no key resolves to its first label's entry
C1_Witness ==
    /\ Resolved
    /\ \E i \in 1..Len(req.s) : req.s[i] = "."
    /\ req.s \notin DOMAIN cfg
    /\ FirstLabel(req.s) \in DOMAIN cfg
    /\ FirstLabel(req.s) # <<>>
    /\ resp.err = Nil

\* C2: resolve of the empty string fails with the invalid-FQDN error, not with
\* the device-not-found error of an unknown name, in every registry.
C2_EmptyFqdnIsInvalid ==
    (Resolved /\ req.s = <<>>) => resp.err = "invalid FQDN format"

\* C9: the target parser never fails; a target "fqdn" parses to that fqdn with
\* user admin and the default secret, "fqdn:user" to fqdn and user with the
\* default secret, "fqdn:user:secret" to its three parts; the empty string
\* parses to the empty fqdn with both defaults.
C9_ParseTargetTotal ==
    Parsed =>
        LET s == req.s
            n == Len(s)
        IN /\ resp.err = Nil
           /\ NoColon(s) =>
                  resp = [fqdn |-> s, username |-> Admin,
                          password |-> DefaultSecret, err |-> Nil]
           /\ \A i \in 1..n :
                  (s[i] = ":" /\ NoColon(SubSeq(s, 1, i - 1))
                              /\ NoColon(SubSeq(s, i + 1, n))) =>
                      resp = [fqdn |-> SubSeq(s, 1, i - 1),
                              username |-> SubSeq(s, i + 1, n),
                              password |-> DefaultSecret, err |-> Nil]
           /\ \A i \in 1..n : \A j \in (i + 1)..n :
                  (s[i] = ":" /\ s[j] = ":" /\ NoColon(SubSeq(s, 1, i - 1))
                              /\ NoColon(SubSeq(s, i + 1, j - 1))
                              /\ NoColon(SubSeq(s, j + 1, n))) =>
                      resp = [fqdn |-> SubSeq(s, 1, i - 1),
                              username |-> SubSeq(s, i + 1, j - 1),
                              password |-> SubSeq(s, j + 1, n), err |-> Nil]

\* a target with a non-empty fqdn, user and secret has been parsed
C9_Witness ==
    /\ Parsed
    /\ Len(req.s) = 5
    /\ req.s[2] = ":" /\ req.s[4] = ":"
    /\ NoColon(<<req.s[1], req.s[3], req.s[5]>>)
    /\ resp.password = <<req.s[5]>>

(***************************************************************************)
(* The backend adapters (internal/proxy).  Each dials hostname:port and    *)
(* returns (output, err); env is what the backend and the network do.      *)
(***************************************************************************)
\* proxy.ExecuteSSHCommand
ExecuteSSHCommand(hostname, port, username, password, command, env) ==
    CASE env.fail = "dial" -> [output |-> <<>>, err |-> "failed to dial SSH"]
      [] env.fail = "session" -> [output |-> <<>>, err |-> "failed to create SSH session"]
      [] env.fail = "run" ->
            [output |-> env.stdout \o env.stderr, err |-> "command execution failed"]
      [] OTHER -> [output |-> env.stdout, err |-> Nil]

SSHEnvs ==
    {[fail |-> f, stdout |-> <<>>, stderr |-> <<>>] : f \in {"dial", "session"}}
    \cup {[fail |-> "run", stdout |-> o, stderr |-> <<"e">>] : o \in {<<>>, <<"o">>}}
    \cup {[fail |-> "none", stdout |-> o, stderr |-> <<>>] : o \in {<<>>, <<"o">>}}

\* one conn.Write or stdin.Write of an adapter: what was written, and whether
\* the write succeeded
Wrote(msg, ok) == [msg |-> msg, ok |-> ok]

\* the steps of ExecuteTelnetCommand in order; env.fail names the one that
\* fails ("timeout": the read after the command times out, "send_exit": the
\* write of exit fails, "none": nothing fails)
TelnetSteps ==
    <<"connect", "deadline", "banner", "send_user", "prompt", "send_pass", "login",
      "send_cmd", "read", "send_exit">>

\* the place in TelnetSteps of the step that fails, past the end when none
\* does: a timeout of the read after the command is not a failure
TelnetFailsAt(env) ==
    IF env.fail \in {"timeout", "none"} THEN 11
    ELSE CHOOSE i \in 1..10 : TelnetSteps[i] = env.fail

\* the conn.Write calls of a call: every send up to the step that fails, the
\* failing send included
TelnetWrites(username, password, command, env) ==
    LET Send(i, line) ==
            IF i <= TelnetFailsAt(env)
            THEN <<Wrote(line \o <<"\r", "\n">>, i # TelnetFailsAt(env))>>
            ELSE <<>>
    IN Send(4, username) \o Send(6, password) \o Send(8, command)
       \o Send(10, <<"e", "x", "i", "t">>)

\* ExecuteTelnetCommand with a timeout of the read after the command reported
\* as a failure like any other error of that read
ExecuteTelnetCommand_TimeoutFails(hostname, port, username, password, command, env) ==
    LET login == <<"banner", "prompt", "login">>
        failed == IF env.fail = "timeout" THEN [env EXCEPT !.fail = "read"] ELSE env
    IN [output |-> CASE TelnetFailsAt(failed) <= 8 -> <<>>
                     [] TelnetFailsAt(failed) = 9 -> login
                     [] OTHER -> login \o env.stdout,
        err |-> IF TelnetFailsAt(failed) <= 9 THEN "failed at " \o failed.fail ELSE Nil]

\* proxy.ExecuteTelnetCommand: banner, prompt and login reads, then the one
\* read after the command; an i/o timeout on that read is not a failure, and
\* the result of writing exit is discarded.
ExecuteTelnetCommand(hostname, port, username, password, command, env) ==
    LET login == <<"banner", "prompt", "login">>
        Result(output, err) == [output |-> output, err |-> err]
    IN CASE env.fail = "connect" -> Result(<<>>, "failed to connect to telnet")
         [] env.fail = "deadline" -> Result(<<>>, "failed to set deadline")
         [] env.fail = "banner" -> Result(<<>>, "failed to read initial prompt")
         [] env.fail = "send_user" -> Result(<<>>, "failed to send username")
         [] env.fail = "prompt" -> Result(<<>>, "failed to read password prompt")
         [] env.fail = "send_pass" -> Result(<<>>, "failed to send password")
         [] env.fail = "login" -> Result(<<>>, "failed to read login response")
         [] env.fail = "send_cmd" -> Result(<<>>, "failed to send command")
         [] env.fail = "read" -> Result(login, "failed to read command output")
         [] OTHER -> Result(login \o env.stdout, Nil)

TelnetEnvs ==
    {[fail |-> f, stdout |-> <<>>, stderr |-> <<>>] :
        f \in {"connect", "deadline", "banner", "send_user", "prompt", "send_pass",
               "login", "send_cmd", "read", "timeout"}}
    \cup {[fail |-> f, stdout |-> <<"o">>, stderr |-> <<>>] : f \in {"timeout", "none"}}

\* the five bytes `]]>]]>` that end a message on the wire
Delim == "]]>]]>"

\* bytes.Contains
Contains(s, sub) ==
    \E i \in 0..(Len(s) - Len(sub)) : SubSeq(s, i + 1, i + Len(sub)) = sub

\* the hello and the close-session envelopes, each a literal ending in the
\* delimiter
NetconfHello == <<"<hello>", Delim>>

NetconfClose == <<"<rpc 2>", "<close-session/>", "</rpc>", Delim>>

\* "Wrap command in RPC tags if not already present"
NetconfRPC(command) ==
    IF ~Contains(command, <<"<", "r", "p", "c">>)
    THEN <<"<rpc 1>">> \o command \o <<"</rpc>", Delim>>
    ELSE command

\* the stdin.Write calls made when the call fails at env.fail ("close": the
\* write of the close envelope fails)
NetconfWrites(command, env) ==
    CASE env.fail \in {"dial", "session", "subsystem", "stdin", "start"} -> <<>>
      [] env.fail = "hello" -> <<Wrote(NetconfHello, FALSE)>>
      [] env.fail = "rpc" -> <<Wrote(NetconfHello, TRUE), Wrote(NetconfRPC(command), FALSE)>>
      [] OTHER -> <<Wrote(NetconfHello, TRUE), Wrote(NetconfRPC(command), TRUE),
                    Wrote(NetconfClose, env.fail # "close")>>

\* proxy.ExecuteNetconfCommand
ExecuteNetconfCommand(hostname, port, username, password, command, env) ==
    LET Result(output, err) == [output |-> output, err |-> err]
    IN CASE env.fail = "dial" -> Result(<<>>, "failed to dial NETCONF")
         [] env.fail = "session" -> Result(<<>>, "failed to create NETCONF session")
         [] env.fail = "subsystem" -> Result(<<>>, "failed to request NETCONF subsystem")
         [] env.fail = "stdin" -> Result(<<>>, "failed to get stdin pipe")
         [] env.fail = "start" -> Result(<<>>, "failed to start session")
         [] env.fail = "hello" -> Result(<<>>, "failed to send hello")
         [] env.fail = "rpc" -> Result(<<>>, "failed to send RPC")
         [] OTHER -> Result(env.stdout, Nil)

NetconfEnvs ==
    {[fail |-> f, stdout |-> <<>>, stderr |-> <<>>] :
        f \in {"dial", "session", "subsystem", "stdin", "start", "hello", "rpc"}}
    \cup {[fail |-> "none", stdout |-> o, stderr |-> <<>>] : o \in {<<>>, <<"o">>}}

Envs(adapter) ==
    CASE adapter = "ssh" -> SSHEnvs
      [] adapter = "telnet" -> TelnetEnvs
      [] adapter = "netconf" -> NetconfEnvs

\* the backend connections of one adapter invocation: how many are open at
\* once at most (peak) and how many are still open when it returns (left).
\* Each adapter dials once and defers the Close of what it dialed.
Handles(adapter, env) ==
    IF env.fail \in {"dial", "connect"}
    THEN [peak |-> 0, left |-> 0]
    ELSE [peak |-> 1, left |-> 0]

\* the invocation of one adapter, as the record kept in calls
Invoke(adapter, hostname, port, username, password, command, env) ==
    LET r == CASE adapter = "ssh" ->
                    ExecuteSSHCommand(hostname, port, username, password, command, env)
               [] adapter = "telnet" ->
                    ExecuteTelnetCommand(hostname, port, username, password, command, env)
               [] adapter = "netconf" ->
                    ExecuteNetconfCommand(hostname, port, username, password, command, env)
    IN [adapter |-> adapter, hostname |-> hostname, port |-> port,
        username |-> username, password |-> password, command |-> command,
        output |-> r.output, err |-> r.err, fail |-> env.fail,
        peak |-> Handles(adapter, env).peak, left |-> Handles(adapter, env).left]

(***************************************************************************)
(* The command service (internal/grpc): ExecuteCommand and StreamCommand.  *)
(***************************************************************************)
\* longest FQDN of a command request
MaxFqdnLen == 3

\* commands one stream serves at most
MaxMsgs == 2

Fqdns == StrUpTo({"a", "b", "."}, MaxFqdnLen)

Users == {<<>>, <<"u">>}

Secrets == {<<>>, <<"p">>}

Commands == {<<>>, <<"c">>}

Tags == {"", "ssh", "telnet", "netconf", "SSH", "gnmi"}

CommandRequests ==
    [op : {"ExecuteCommand"}, Fqdn : Fqdns, Username : Users, Password : Secrets,
     Command : Commands, Protocol : Tags]

NoResponse == [Output |-> <<>>, Error |-> "", ExitCode |-> -1]

\* a handler's return: the gRPC status and, with OK, the response
Return(status, msg, response) == [status |-> status, msg |-> msg, response |-> response]

\* ExecuteCommand's field checks with username checked before fqdn
Validate_UserFirst(r) ==
    IF r.Username = <<>> THEN "username is required"
    ELSE IF r.Fqdn = <<>> THEN "FQDN is required"
    ELSE IF r.Password = <<>> THEN "password is required"
    ELSE IF r.Command = <<>> THEN "command is required"
    ELSE Nil

\* ExecuteCommand's field checks: the message of the first failing one, or Nil
Validate(r) ==
    IF r.Fqdn = <<>> THEN "FQDN is required"
    ELSE IF r.Username = <<>> THEN "username is required"
    ELSE IF r.Password = <<>> THEN "password is required"
    ELSE IF r.Command = <<>> THEN "command is required"
    ELSE Nil

\* ExecuteCommand's switch with an unknown tag falling back to ssh
SelectAdapter_DefaultSSH(protocol) ==
    CASE protocol = "telnet" -> "telnet"
      [] protocol = "netconf" -> "netconf"
      [] OTHER -> "ssh"

\* ExecuteCommand's switch on req.Protocol: the adapter, or "none" (default:)
SelectAdapter(protocol) ==
    CASE protocol \in {"ssh", ""} -> "ssh"
      [] protocol = "telnet" -> "telnet"
      [] protocol = "netconf" -> "netconf"
      [] OTHER -> "none"

\* the port each case of the switch hands to its adapter
AdapterPort(device, adapter) ==
    CASE adapter = "ssh" -> device.SSHPort
      [] adapter = "telnet" -> device.TelnetPort
      [] adapter = "netconf" -> device.NetconfPort

\* the response with exit code 1 whatever the adapter returned
CommandResponse_AlwaysOne(output, execErr) ==
    [Output |-> output, Error |-> IF execErr # Nil THEN execErr ELSE "", ExitCode |-> 1]

\* pb.CommandResponse as both handlers fill it from (output, execErr)
CommandResponse(output, execErr) ==
    IF execErr # Nil
    THEN [Output |-> output, Error |-> execErr, ExitCode |-> 1]
    ELSE [Output |-> output, Error |-> "", ExitCode |-> 0]

InitCmd ==
    /\ cfg \in Registries
    /\ pc = "idle"
    /\ req = [op |-> "none"]
    /\ resp = NoResp
    /\ lookups = <<>>
    /\ calls = <<>>
    /\ sess = NoSession
    /\ SubIdle
    /\ BastionIdle

\* ExecuteCommand with the protocol switch ahead of the registry lookup
ExecuteCommand_TagFirst ==
    /\ pc = "idle"
    /\ \E r \in CommandRequests :
        /\ req' = r
        /\ IF Validate(r) # Nil
           THEN /\ resp' = Return("InvalidArgument", Validate(r), NoResponse)
                /\ lookups' = <<>>
                /\ calls' = <<>>
           ELSE LET d == GetDeviceByFQDN(cfg, r.Fqdn)
                    adapter == SelectAdapter(r.Protocol)
                IN IF adapter = "none"
                   THEN /\ resp' = Return("InvalidArgument", "unsupported protocol",
                                          NoResponse)
                        /\ lookups' = <<>>
                        /\ calls' = <<>>
                   ELSE /\ lookups' = <<r.Fqdn>>
                        /\ IF d.err # Nil
                           THEN /\ resp' = Return("NotFound", d.err, NoResponse)
                                /\ calls' = <<>>
                           ELSE \E env \in Envs(adapter) :
                                  LET c == Invoke(adapter, d.device.Hostname,
                                                  AdapterPort(d.device, adapter),
                                                  r.Username, r.Password, r.Command, env)
                                  IN /\ calls' = <<c>>
                                     /\ resp' = Return("OK", "",
                                                       CommandResponse(c.output, c.err))
    /\ pc' = "done"
    /\ UNCHANGED <<bastionVars, subVars, cfg, sess>>

\* Server.ExecuteCommand, one whole call
ExecuteCommand ==
    /\ pc = "idle"
    /\ \E r \in CommandRequests :
        /\ req' = r
        /\ IF Validate(r) # Nil
           THEN /\ resp' = Return("InvalidArgument", Validate(r), NoResponse)
                /\ lookups' = <<>>
                /\ calls' = <<>>
           ELSE LET d == GetDeviceByFQDN(cfg, r.Fqdn)
                    adapter == SelectAdapter(r.Protocol)
                IN /\ lookups' = <<r.Fqdn>>
                   /\ IF d.err # Nil
                      THEN /\ resp' = Return("NotFound", d.err, NoResponse)
                           /\ calls' = <<>>
                      ELSE IF adapter = "none"
                      THEN /\ resp' = Return("InvalidArgument", "unsupported protocol",
                                             NoResponse)
                           /\ calls' = <<>>
                      ELSE \E env \in Envs(adapter) :
                             LET c == Invoke(adapter, d.device.Hostname,
                                             AdapterPort(d.device, adapter),
                                             r.Username, r.Password, r.Command, env)
                             IN /\ calls' = <<c>>
                                /\ resp' = Return("OK", "",
                                                  CommandResponse(c.output, c.err))
    /\ pc' = "done"
    /\ UNCHANGED <<bastionVars, subVars, cfg, sess>>

StreamFqdns == {<<>>, <<"a">>, <<"a", ".", "b">>, <<"b", ".", "a">>}

\* what stream.Recv can hand over first: any message, fields empty or not
FirstMessages ==
    [op : {"StreamCommand"}, ev : {"msg"}, Fqdn : StreamFqdns, Username : Users,
     Password : Secrets, Command : Commands, Protocol : Tags]

\* later messages: their connection fields differ from those of a first message
LaterMessages ==
    [op : {"StreamCommand"}, ev : {"msg"}, Fqdn : {<<"b">>}, Username : {<<"v">>},
     Password : {<<"q">>}, Command : Commands, Protocol : {"", "telnet", "gnmi"}]

\* StreamCommand's switch on the bound protocol: no default case
StreamAdapter(protocol) ==
    CASE protocol = "ssh" -> "ssh"
      [] protocol = "telnet" -> "telnet"
      [] protocol = "netconf" -> "netconf"
      [] OTHER -> "none"

\* the locals when every message binds device, credentials and protocol anew
Bind_EveryMessage(m, d) ==
    [sess EXCEPT !.init = TRUE, !.device = d.device, !.deviceName = d.deviceName,
                 !.username = m.Username, !.password = m.Password,
                 !.protocol = IF m.Protocol = "" THEN "ssh" ELSE m.Protocol]

\* the locals after `if device == nil { ... }` for message m, resolved as d
Bind(m, d) ==
    IF sess.init
    THEN sess
    ELSE [init |-> TRUE, device |-> d.device, deviceName |-> d.deviceName,
          username |-> m.Username, password |-> m.Password,
          protocol |-> IF m.Protocol = "" THEN "ssh" ELSE m.Protocol,
          served |-> 0, got |-> <<>>, sent |-> <<>>, open |-> 0, peak |-> 0]

\* stream.Recv's io.EOF returned to the client like any other receive error
StreamEnd_EOFIsError ==
    /\ \E ev \in {"EOF", "error"} :
        /\ req' = [op |-> "StreamCommand", ev |-> ev]
        /\ resp' = Return("RecvError", "", NoResponse)
    /\ pc' = "done"
    /\ lookups' = <<>>
    /\ calls' = <<>>
    /\ UNCHANGED <<bastionVars, subVars, cfg, sess>>

\* stream.Recv returned io.EOF (return nil) or another error (return err)
StreamEnd ==
    /\ \E ev \in {"EOF", "error"} :
        /\ req' = [op |-> "StreamCommand", ev |-> ev]
        /\ resp' = Return(IF ev = "EOF" THEN "OK" ELSE "RecvError", "", NoResponse)
    /\ pc' = "done"
    /\ lookups' = <<>>
    /\ calls' = <<>>
    /\ UNCHANGED <<bastionVars, subVars, cfg, sess>>

\* the first message names a device the registry does not hold
StreamNotFound ==
    /\ ~sess.init
    /\ \E m \in FirstMessages :
        LET d == GetDeviceByFQDN(cfg, m.Fqdn)
        IN /\ d.err # Nil
           /\ req' = m
           /\ resp' = Return("NotFound", d.err, NoResponse)
           /\ lookups' = <<m.Fqdn>>
    /\ pc' = "done"
    /\ calls' = <<>>
    /\ UNCHANGED <<bastionVars, subVars, cfg, sess>>

\* one message served: bind on the first, run the command, send the response
StreamServe ==
    /\ sess.served < MaxMsgs
    /\ \E m \in (IF sess.init THEN LaterMessages ELSE FirstMessages) :
        LET d == GetDeviceByFQDN(cfg, m.Fqdn)
            s == Bind(m, d)
            adapter == StreamAdapter(s.protocol)
        IN /\ sess.init \/ d.err = Nil
           /\ req' = m
           /\ lookups' = IF sess.init THEN <<>> ELSE <<m.Fqdn>>
           /\ \E sendOK \in BOOLEAN :
                LET Send(response, peak, left) ==
                        /\ resp' = Return(IF sendOK THEN "streaming" ELSE "SendError",
                                          "", response)
                        /\ sess' = [s EXCEPT
                                      !.open = @ + left,
                                      !.peak = IF s.open + peak > @
                                               THEN s.open + peak ELSE @,
                                      !.served = @ + 1,
                                      !.got = Append(@, m.Command),
                                      !.sent = IF sendOK
                                               THEN Append(@, s.served + 1)
                                               ELSE @]
                IN /\ pc' = IF sendOK THEN "streaming" ELSE "done"
                   /\ IF adapter = "none"
                      THEN /\ calls' = <<>>
                           /\ Send(CommandResponse(<<>>, Nil), 0, 0)
                      ELSE \E env \in Envs(adapter) :
                             LET c == Invoke(adapter, s.device.Hostname,
                                             AdapterPort(s.device, adapter),
                                             s.username, s.password, m.Command, env)
                             IN /\ calls' = <<c>>
                                /\ Send(CommandResponse(c.output, c.err), c.peak, c.left)
    /\ UNCHANGED <<bastionVars, subVars, cfg>>

\* Server.StreamCommand, one turn of its loop
StreamCommand ==
    /\ pc \in {"idle", "streaming"}
    /\ (StreamEnd \/ StreamNotFound \/ StreamServe)

Next == ExecuteCommand \/ StreamCommand

Spec == InitCmd /\ [][Next]_vars

(***************************************************************************)
(* Claims about the command service (Spec).                                *)
(***************************************************************************)
ExecDone == pc = "done" /\ req.op = "ExecuteCommand"

FieldOrder == <<"Fqdn", "Username", "Password", "Command">>

FieldError ==
    [Fqdn |-> "FQDN is required", Username |-> "username is required",
     Password |-> "password is required", Command |-> "command is required"]

\* the protocol defaults of the data model
DefaultPort(adapter) ==
    CASE adapter = "ssh" -> 22
      [] adapter = "telnet" -> 23
      [] adapter = "netconf" -> 830
      [] adapter = "gnmi" -> 57400

StoredPort(device, adapter) ==
    CASE adapter = "ssh" -> device.SSHPort
      [] adapter = "telnet" -> device.TelnetPort
      [] adapter = "netconf" -> device.NetconfPort
      [] adapter = "gnmi" -> device.GNMIPort

\* C3: ExecuteCommand reports the error of the first empty field in the order
\* fqdn, username, password, command, with status invalid-argument, and such a
\* request causes no registry lookup and no adapter call.
C3_ValidationOrder ==
    ExecDone =>
        \A i \in 1..4 :
            (req[FieldOrder[i]] = <<>> /\ \A j \in 1..(i - 1) : req[FieldOrder[j]] # <<>>)
            => /\ resp = Return("InvalidArgument", FieldError[FieldOrder[i]], NoResponse)
               /\ lookups = <<>>
               /\ calls = <<>>

\* a request missing both fqdn and username was answered with the fqdn error
C3_Witness ==
    /\ ExecDone
    /\ req.Fqdn = <<>> /\ req.Username = <<>> /\ req.Command # <<>>
    /\ resp.msg = "FQDN is required"

\* C4: for a valid request whose device resolves, tag "" or ssh invokes exactly
\* the shell adapter with the entry's shell port, telnet exactly the line
\* adapter with the line port, netconf exactly the config adapter with the
\* config port, and any other tag is rejected with invalid-argument and no
\* adapter invoked.
C4_ProtocolTagMapping ==
    (/\ ExecDone
     /\ \A i \in 1..4 : req[FieldOrder[i]] # <<>>
     /\ FirstLabel(req.Fqdn) \in DOMAIN cfg)
    => LET device == cfg[FirstLabel(req.Fqdn)]
           Hits(adapter, port) ==
               /\ Len(calls) = 1
               /\ calls[1].adapter = adapter
               /\ calls[1].hostname = device.Hostname
               /\ calls[1].port = port
               /\ resp.status = "OK"
       IN CASE req.Protocol \in {"", "ssh"} -> Hits("ssh", device.SSHPort)
            [] req.Protocol = "telnet" -> Hits("telnet", device.TelnetPort)
            [] req.Protocol = "netconf" -> Hits("netconf", device.NetconfPort)
            [] OTHER -> calls = <<>> /\ resp.status = "InvalidArgument"

\* an untagged request reached the shell adapter of a resolved device
C4_Witness ==
    /\ ExecDone
    /\ req.Protocol = ""
    /\ Len(calls) = 1
    /\ calls[1].adapter = "ssh"
    /\ calls[1].port = cfg[FirstLabel(req.Fqdn)].SSHPort
    /\ cfg[FirstLabel(req.Fqdn)].SSHPort # cfg[FirstLabel(req.Fqdn)].TelnetPort

\* a response was built in the last turn of ExecuteCommand or StreamCommand
Responded == resp # NoResp /\ resp.response # NoResponse

AdapterFailed == calls # <<>> /\ calls[Len(calls)].err # Nil

\* C5: in every response of ExecuteCommand and StreamCommand, error is
\* non-empty exactly when the invoked adapter failed, exit_code is 1 exactly
\* then and 0 otherwise; no other exit code occurs.
C5_ResponseShape ==
    Responded =>
        /\ resp.response.Error # "" <=> AdapterFailed
        /\ resp.response.ExitCode = 1 <=> AdapterFailed
        /\ resp.response.ExitCode = 0 <=> ~AdapterFailed
        /\ resp.response.ExitCode \in {0, 1}

\* a stream answered a failed command, after an earlier one
C5_Witness ==
    /\ Responded
    /\ req.op = "StreamCommand"
    /\ sess.served = 2
    /\ AdapterFailed
    /\ resp.response.ExitCode = 1
    /\ resp.response.Output # <<>>

\* C6: a backend is never dialed on port 0; an entry whose port for the
\* protocol is 0 (omitted) is dialed on the protocol default.
C6_PortDefaulting ==
    \A i \in 1..Len(calls) :
        /\ calls[i].port # 0
        /\ \A k \in DOMAIN cfg :
              cfg[k].Hostname = calls[i].hostname =>
                  calls[i].port = IF StoredPort(cfg[k], calls[i].adapter) = 0
                                  THEN DefaultPort(calls[i].adapter)
                                  ELSE StoredPort(cfg[k], calls[i].adapter)

(***************************************************************************)
(* The gNMI proxy (internal/gnmi): target extraction, the backend client   *)
(* and the unary RPCs.                                                     *)
(***************************************************************************)
\* a nil *gnmipb.Path, and a path with its Target field
NoPrefix == [nil |-> TRUE, Target |-> <<>>]

Prefix(target) == [nil |-> FALSE, Target |-> target]

NoTarget ==
    [fqdn |-> <<>>, username |-> <<>>, password |-> <<>>,
     err |-> "no target specified in metadata or prefix"]

\* Server.getTargetFromContext trying the prefix before the metadata
getTargetFromContext_PrefixFirst(md, prefix) ==
    IF ~prefix.nil /\ prefix.Target # <<>>
    THEN parseTarget(prefix.Target)
    ELSE IF md.ok /\ Len(md.targets) > 0
         THEN parseTarget(md.targets[1])
         ELSE NoTarget

\* Server.getTargetFromContext; md.ok is FromIncomingContext's ok and
\* md.targets is md.Get("x-gnmi-target")
getTargetFromContext(md, prefix) ==
    IF md.ok /\ Len(md.targets) > 0
    THEN parseTarget(md.targets[1])
    ELSE IF ~prefix.nil /\ prefix.Target # <<>>
         THEN parseTarget(prefix.Target)
         ELSE NoTarget

\* the port getBackendClient dials
gnmiPort(device) == IF device.GNMIPort > 0 THEN device.GNMIPort ELSE 57400

\* one grpc.NewClient of getBackendClient, as the record kept in calls; the
\* handle it returns is open
Dial(device, username, password, tls, err) ==
    [adapter |-> "gnmi", hostname |-> device.Hostname, port |-> gnmiPort(device),
     username |-> username, password |-> password, tls |-> tls, err |-> err,
     open |-> (err = Nil)]

\* a handler returning without closing the handle it was given
CloseConn_Leaks(dials) == dials

\* `defer conn.Close()` of the four telemetry handlers at their return
CloseConn(dials) == [i \in 1..Len(dials) |-> [dials[i] EXCEPT !.open = FALSE]]

\* Server.getBackendClient: the lookup, then NewClient with TLS and, when that
\* fails, without; conn says which of them the gRPC library lets succeed.
getBackendClient(fqdn, username, password, conn) ==
    LET d == GetDeviceByFQDN(cfg, fqdn)
    IN IF d.err # Nil
       THEN [err |-> "device not found", dials |-> <<>>]
       ELSE CASE conn = "tls" ->
                   [err |-> Nil, dials |-> <<Dial(d.device, username, password, TRUE, Nil)>>]
              [] conn = "insecure" ->
                   [err |-> Nil,
                    dials |-> <<Dial(d.device, username, password, TRUE, "tls failed"),
                                Dial(d.device, username, password, FALSE, Nil)>>]
              [] OTHER ->
                   [err |-> "failed to connect",
                    dials |-> <<Dial(d.device, username, password, TRUE, "tls failed"),
                                Dial(d.device, username, password, FALSE, "failed")>>]

GnmiTargets ==
    {<<>>, <<"a">>, <<"b", ".", "a">>, <<"a", ":", "u">>,
     <<"a", ".", "b", ":", "u", ":", "p">>, <<"b", ":", "u", ":", "p", ":", "x">>}

\* the incoming metadata: none, or with zero, one or two x-gnmi-target values
Metadata ==
    {[ok |-> FALSE, targets |-> <<>>], [ok |-> TRUE, targets |-> <<>>]}
    \cup {[ok |-> TRUE, targets |-> <<t>>] : t \in GnmiTargets}
    \cup {[ok |-> TRUE, targets |-> <<t, u>>] : t \in GnmiTargets, u \in GnmiTargets}

Prefixes == {NoPrefix} \cup {Prefix(t) : t \in GnmiTargets}

ConnOutcomes == {"tls", "insecure", "fail"}

\* what the backend answers to the relayed RPC
BackendOutcomes == {"OK", "BackendError"}

\* the backend's response message, returned as it came
Relayed == [verbatim |-> TRUE]

\* the body shared by Capabilities, Get and Set
Unary(rpc, md, prefix, conn, backend) ==
    LET t == getTargetFromContext(md, prefix)
        b == getBackendClient(t.fqdn, t.username, t.password, conn)
    IN /\ pc = "idle"
       /\ pc' = "done"
       /\ req' = [op |-> rpc, md |-> md, prefix |-> prefix]
       /\ IF t.err # Nil
          THEN /\ resp' = Return("InvalidArgument", t.err, NoResponse)
               /\ lookups' = <<>>
               /\ calls' = <<>>
          ELSE /\ lookups' = <<t.fqdn>>
               /\ calls' = CloseConn(b.dials)
               /\ IF b.err # Nil
                  THEN resp' = Return("Unavailable", b.err, NoResponse)
                  ELSE resp' = Return(backend, "",
                                      IF backend = "OK" THEN Relayed ELSE NoResponse)
       /\ UNCHANGED <<bastionVars, subVars, cfg, sess>>

\* Server.Capabilities: the request has no prefix
Capabilities ==
    \E md \in Metadata, conn \in ConnOutcomes, backend \in BackendOutcomes :
        Unary("Capabilities", md, NoPrefix, conn, backend)

\* Server.Get
Get ==
    \E md \in Metadata, prefix \in Prefixes, conn \in ConnOutcomes,
       backend \in BackendOutcomes :
        Unary("Get", md, prefix, conn, backend)

\* Server.Set
Set ==
    \E md \in Metadata, prefix \in Prefixes, conn \in ConnOutcomes,
       backend \in BackendOutcomes :
        Unary("Set", md, prefix, conn, backend)


(***************************************************************************)
(* Subscribe: the handler up to the start of the two pumps, the pumps, and *)
(* the handler's return on the first report.                               *)
(***************************************************************************)
\* messages the client sends, and responses the backend sends, at most
MaxSubMsgs == 2

\* capacity of errChan
ErrChanCap == 2

SubMetadata ==
    {[ok |-> FALSE, targets |-> <<>>], [ok |-> TRUE, targets |-> <<<<"a">>>>],
     [ok |-> TRUE, targets |-> <<<<"b", ".", "a">>>>]}

SubPrefixes == {NoPrefix, Prefix(<<"a", ":", "u">>)}

\* errChan <- err by pump
Report(pump, err) ==
    /\ Len(errChan) < ErrChanCap
    /\ errChan' = Append(errChan, err)
    /\ reports' = Append(reports, [pump |-> pump, err |-> err])

\* Subscribe starting the pumps without sending the first message itself,
\* leaving it to the client-to-backend pump
SubscribeStart_PumpSendsFirst ==
    /\ pc = "idle"
    /\ \E first \in {"msg", "EOF", "error"}, md \in SubMetadata, prefix \in SubPrefixes,
          dial \in ConnOutcomes, opened \in BOOLEAN, sent \in BOOLEAN :
        LET t == getTargetFromContext(md, prefix)
            b == getBackendClient(t.fqdn, t.username, t.password, dial)
            Fail(status, msg, handle) ==
                /\ pc' = "done"
                /\ resp' = Return(status, msg, NoResponse)
                /\ backendConn' = handle
                /\ UNCHANGED <<c2b, b2c, toBackend>>
        IN /\ req' = [op |-> "Subscribe", first |-> first, md |-> md, prefix |-> prefix]
           /\ nrecv' = IF first = "msg" THEN 1 ELSE 0
           /\ lookups' = IF first = "msg" /\ t.err = Nil THEN <<t.fqdn>> ELSE <<>>
           /\ calls' = IF first # "msg" \/ t.err # Nil THEN <<>>
                       ELSE IF b.err = Nil /\ opened /\ sent THEN b.dials
                       ELSE CloseConn(b.dials)
           /\ IF first # "msg"
              THEN Fail("InvalidArgument", "failed to receive subscription request", "none")
              ELSE IF t.err # Nil THEN Fail("InvalidArgument", t.err, "none")
              ELSE IF b.err # Nil THEN Fail("Unavailable", b.err, "none")
              ELSE IF ~opened
              THEN Fail("Internal", "failed to create backend subscription", "closed")
              ELSE IF ~sent THEN Fail("Internal", "failed to send to backend", "closed")
              ELSE /\ pc' = "pumping"
                   /\ resp' = NoResp
                   /\ backendConn' = "open"
                   /\ toBackend' = <<>>
                   /\ c2b' = "send"
                   /\ b2c' = "recv"
    /\ UNCHANGED <<bastionVars, cfg, sess, errChan, reports, toClient, closeSend, nresp>>

\* Server.Subscribe from its first Recv to the start of the pumps
SubscribeStart ==
    /\ pc = "idle"
    /\ \E first \in {"msg", "EOF", "error"}, md \in SubMetadata, prefix \in SubPrefixes,
          dial \in ConnOutcomes, opened \in BOOLEAN, sent \in BOOLEAN :
        LET t == getTargetFromContext(md, prefix)
            b == getBackendClient(t.fqdn, t.username, t.password, dial)
            Fail(status, msg, handle) ==
                /\ pc' = "done"
                /\ resp' = Return(status, msg, NoResponse)
                /\ backendConn' = handle
                /\ UNCHANGED <<c2b, b2c, toBackend>>
        IN /\ req' = [op |-> "Subscribe", first |-> first, md |-> md, prefix |-> prefix]
           /\ nrecv' = IF first = "msg" THEN 1 ELSE 0
           /\ lookups' = IF first = "msg" /\ t.err = Nil THEN <<t.fqdn>> ELSE <<>>
           /\ calls' = IF first # "msg" \/ t.err # Nil THEN <<>>
                       ELSE IF b.err = Nil /\ opened /\ sent THEN b.dials
                       ELSE CloseConn(b.dials)
           /\ IF first # "msg"
              THEN Fail("InvalidArgument", "failed to receive subscription request", "none")
              ELSE IF t.err # Nil THEN Fail("InvalidArgument", t.err, "none")
              ELSE IF b.err # Nil THEN Fail("Unavailable", b.err, "none")
              ELSE IF ~opened
              THEN Fail("Internal", "failed to create backend subscription", "closed")
              ELSE IF ~sent THEN Fail("Internal", "failed to send to backend", "closed")
              ELSE /\ pc' = "pumping"
                   /\ resp' = NoResp
                   /\ backendConn' = "open"
                   /\ toBackend' = <<1>>
                   /\ c2b' = "recv"
                   /\ b2c' = "recv"
    /\ UNCHANGED <<bastionVars, cfg, sess, errChan, reports, toClient, closeSend, nresp>>

\* the client-to-backend pump with end-of-stream reported like an error
C2BRecv_ReportsEOF ==
    /\ c2b = "recv"
    /\ \/ /\ nrecv < MaxSubMsgs
          /\ nrecv' = nrecv + 1
          /\ c2b' = "send"
          /\ UNCHANGED <<closeSend, errChan, reports>>
       \/ /\ closeSend' = TRUE
          /\ Report("c2b", Nil)
          /\ c2b' = "eof"
          /\ UNCHANGED nrecv
       \/ /\ Report("c2b", "client recv error")
          /\ c2b' = "failed"
          /\ UNCHANGED <<closeSend, nrecv>>
    /\ UNCHANGED <<bastionVars, cfg, pc, req, resp, lookups, calls, sess, b2c, toBackend, toClient,
                   nresp, backendConn>>

\* the client-to-backend pump at stream.Recv: a message, io.EOF (half-close
\* the backend and return, nothing sent on errChan) or another error
C2BRecv ==
    /\ c2b = "recv"
    /\ \/ /\ nrecv < MaxSubMsgs
          /\ nrecv' = nrecv + 1
          /\ c2b' = "send"
          /\ UNCHANGED <<closeSend, errChan, reports>>
       \/ /\ closeSend' = TRUE
          /\ c2b' = "eof"
          /\ UNCHANGED <<nrecv, errChan, reports>>
       \/ /\ Report("c2b", "client recv error")
          /\ c2b' = "failed"
          /\ UNCHANGED <<closeSend, nrecv>>
    /\ UNCHANGED <<bastionVars, cfg, pc, req, resp, lookups, calls, sess, b2c, toBackend, toClient,
                   nresp, backendConn>>

\* the client-to-backend pump putting each message ahead of those already sent
C2BSend_NewestFirst ==
    /\ c2b = "send"
    /\ \/ /\ toBackend' = <<nrecv>> \o toBackend
          /\ c2b' = "recv"
          /\ UNCHANGED <<errChan, reports>>
       \/ /\ Report("c2b", "backend send error")
          /\ c2b' = "failed"
          /\ UNCHANGED toBackend
    /\ UNCHANGED <<bastionVars, cfg, pc, req, resp, lookups, calls, sess, b2c, toClient, closeSend,
                   nrecv, nresp, backendConn>>

\* the client-to-backend pump at backendStream.Send
C2BSend ==
    /\ c2b = "send"
    /\ \/ /\ toBackend' = Append(toBackend, nrecv)
          /\ c2b' = "recv"
          /\ UNCHANGED <<errChan, reports>>
       \/ /\ Report("c2b", "backend send error")
          /\ c2b' = "failed"
          /\ UNCHANGED toBackend
    /\ UNCHANGED <<bastionVars, cfg, pc, req, resp, lookups, calls, sess, b2c, toClient, closeSend,
                   nrecv, nresp, backendConn>>

\* the backend-to-client pump at backendStream.Recv: a response, io.EOF
\* (errChan <- nil) or another error
B2CRecv ==
    /\ b2c = "recv"
    /\ \/ /\ nresp < MaxSubMsgs
          /\ nresp' = nresp + 1
          /\ b2c' = "send"
          /\ UNCHANGED <<errChan, reports>>
       \/ /\ Report("b2c", Nil)
          /\ b2c' = "eof"
          /\ UNCHANGED nresp
       \/ /\ Report("b2c", "backend recv error")
          /\ b2c' = "failed"
          /\ UNCHANGED nresp
    /\ UNCHANGED <<bastionVars, cfg, pc, req, resp, lookups, calls, sess, c2b, toBackend, toClient,
                   closeSend, nrecv, backendConn>>

\* the backend-to-client pump carrying on after a failed stream.Send
B2CSend_KeepsGoing ==
    /\ b2c = "send"
    /\ \/ /\ toClient' = Append(toClient, nresp)
          /\ b2c' = "recv"
          /\ UNCHANGED <<errChan, reports>>
       \/ /\ Report("b2c", "client send error")
          /\ b2c' = "recv"
          /\ UNCHANGED toClient
    /\ UNCHANGED <<bastionVars, cfg, pc, req, resp, lookups, calls, sess, c2b, toBackend, closeSend,
                   nrecv, nresp, backendConn>>

\* the backend-to-client pump at stream.Send
B2CSend ==
    /\ b2c = "send"
    /\ \/ /\ toClient' = Append(toClient, nresp)
          /\ b2c' = "recv"
          /\ UNCHANGED <<errChan, reports>>
       \/ /\ Report("b2c", "client send error")
          /\ b2c' = "failed"
          /\ UNCHANGED toClient
    /\ UNCHANGED <<bastionVars, cfg, pc, req, resp, lookups, calls, sess, c2b, toBackend, closeSend,
                   nrecv, nresp, backendConn>>

\* return <-errChan, and the deferred conn.Close()
SubscribeReturn ==
    /\ pc = "pumping"
    /\ errChan # <<>>
    /\ pc' = "done"
    /\ resp' = Return(IF Head(errChan) = Nil THEN "OK" ELSE Head(errChan), "", NoResponse)
    /\ errChan' = Tail(errChan)
    /\ backendConn' = "closed"
    /\ calls' = CloseConn(calls)
    /\ UNCHANGED <<bastionVars, cfg, req, lookups, sess, c2b, b2c, reports, toBackend, toClient,
                   closeSend, nrecv, nresp>>

NextSub == SubscribeStart \/ C2BRecv \/ C2BSend \/ B2CRecv \/ B2CSend \/ SubscribeReturn

SpecSub == InitCmd /\ [][NextSub]_vars

\* the telemetry service: the three unary RPCs and Subscribe
NextGnmi == Capabilities \/ Get \/ Set \/ NextSub

SpecGnmi == InitCmd /\ [][NextGnmi]_vars

(***************************************************************************)
(* Claims about the telemetry RPCs (SpecGnmi).                             *)
(***************************************************************************)
\* a telemetry RPC has read its request and gone through target extraction
GnmiDone ==
    \/ pc = "done" /\ req.op \in {"Capabilities", "Get", "Set"}
    \/ pc \in {"pumping", "done"} /\ req.op = "Subscribe" /\ req.first = "msg"

HasMetadataTarget == req.md.ok /\ Len(req.md.targets) > 0

HasPrefixTarget == ~req.prefix.nil /\ req.prefix.Target # <<>>

\* C7: a telemetry RPC whose target names a device the registry does not hold
\* fails with status not-found, and no backend connection is attempted.
C7_UnknownDeviceNotFound ==
    (GnmiDone /\ Len(lookups) = 1 /\ FirstLabel(lookups[1]) \notin DOMAIN cfg)
    => resp.status = "NotFound" /\ calls = <<>>

\* C8: the target is the first x-gnmi-target metadata value when there is one,
\* whatever the prefix says; otherwise the non-empty prefix target; with
\* neither the RPC fails with invalid-argument before any registry lookup or
\* backend connection.
C8_TargetExtraction ==
    GnmiDone =>
        LET Uses(target) ==
                /\ lookups = <<parseTarget(target).fqdn>>
                /\ \A i \in 1..Len(calls) :
                      /\ calls[i].username = parseTarget(target).username
                      /\ calls[i].password = parseTarget(target).password
        IN IF HasMetadataTarget THEN Uses(req.md.targets[1])
           ELSE IF HasPrefixTarget THEN Uses(req.prefix.Target)
           ELSE /\ resp.status = "InvalidArgument"
                /\ lookups = <<>>
                /\ calls = <<>>

\* metadata and prefix named different devices and the metadata's was dialed
C8_Witness ==
    /\ GnmiDone
    /\ HasMetadataTarget
    /\ HasPrefixTarget
    /\ parseTarget(req.prefix.Target).fqdn # parseTarget(req.md.targets[1]).fqdn
    /\ Len(req.md.targets) = 2
    /\ req.md.targets[2] # req.md.targets[1]
    /\ calls # <<>>
    /\ calls[1].username = <<"u">>
    /\ resp.status = "OK"

(***************************************************************************)
(* Claims about Subscribe (SpecSub).                                       *)
(***************************************************************************)
PumpsStarted == c2b # "idle"

Reported(pump) == \E i \in 1..Len(reports) : reports[i].pump = pump

ReportOf(pump) == (CHOOSE i \in 1..Len(reports) : reports[i].pump = pump)

StatusOf(err) == IF err = Nil THEN "OK" ELSE err

UpTo(n) == [i \in 1..n |-> i]

\* neither pump met an error
NoPumpError == c2b # "failed" /\ b2c # "failed"

\* C11: the backend is sent the client's messages each once and in the
\* client's order, the first one included, and is half-closed only after all n
\* of them; the client is sent the backend's responses in the backend's order,
\* all of them by the time the backend's end-of-stream is seen; and an RPC
\* whose pumps met no error returns success.
C11_RelayOrdering ==
    PumpsStarted =>
        /\ \E k \in 1..nrecv : toBackend = UpTo(k)
        /\ Len(toBackend) >= nrecv - 1
        /\ closeSend => c2b = "eof" /\ toBackend = UpTo(nrecv)
        /\ \E k \in 0..nresp : toClient = UpTo(k)
        /\ Len(toClient) >= nresp - 1
        /\ b2c = "eof" => toClient = UpTo(nresp)
        /\ (pc = "done" /\ NoPumpError) => b2c = "eof" /\ resp.status = "OK"

\* two client messages and a half-close went to the backend, two responses
\* came back, and the RPC returned success
C11_Witness ==
    /\ pc = "done"
    /\ NoPumpError
    /\ nrecv = 2
    /\ toBackend = <<1, 2>>
    /\ closeSend
    /\ nresp = 2
    /\ toClient = <<1, 2>>
    /\ resp.status = "OK"

(***************************************************************************)
(* Subscribe under fair scheduling.  The Go scheduler runs every goroutine *)
(* that can take a step, so the handler's receive from errChan and the     *)
(* pumps' sends are weakly fair; so is the client-side Recv, which returns *)
(* once the client has sent, half-closed or gone away.  backendStream.Recv *)
(* blocks for as long as the backend neither sends nor ends its stream,    *)
(* and Subscribe sets no deadline (the 30 s context of the unary RPCs is   *)
(* not used here), so B2CRecv carries no fairness.                         *)
(***************************************************************************)
SubFairness ==
    /\ WF_vars(SubscribeStart)
    /\ WF_vars(C2BRecv)
    /\ WF_vars(C2BSend)
    /\ WF_vars(B2CSend)
    /\ WF_vars(SubscribeReturn)

SpecSubFair == InitCmd /\ [][NextSub]_vars /\ SubFairness

\* one end of the subscribe stream is closed: the client half-closed, or a
\* pump met the end or the failure of one of its streams
OneEndClosed == PumpsStarted /\ (c2b \in {"eof", "failed"} \/ b2c \in {"eof", "failed"})

\* C12: once either end of a subscribe stream is closed, the handler
\* eventually returns and the opposite stream is closed.
C12_SubscribeTerminates == OneEndClosed ~> (pc = "done" /\ backendConn = "closed")

\* the part of C12 that does not depend on the backend: a pump that reported
\* makes the handler return and close the backend
C12_ReportTerminates == (reports # <<>>) ~> (pc = "done" /\ backendConn = "closed")

(***************************************************************************)
(* Claims about StreamCommand (Spec).                                      *)
(***************************************************************************)
\* the stream is bound and the last turn of the loop served a message
StreamServed == req.op = "StreamCommand" /\ req.ev = "msg" /\ sess.init

\* the fields StreamCommand binds on its first message
Bound(s) == <<s.device, s.deviceName, s.username, s.password, s.protocol>>

\* once bound, the device, credentials and protocol of the stream never
\* change, whatever the later messages carry
BoundOnce == [][sess.init => (sess'.init /\ Bound(sess') = Bound(sess))]_vars

\* the device, user, secret and protocol are those of the first message; a
\* later message is served without a registry lookup, by the adapter of the
\* bound protocol, on the bound device with the bound credentials and with
\* its own command only; and every message received after initialisation
\* got one response, written in request order (the last one unless its Send
\* failed, which ends the stream)
ServedAsBound ==
    StreamServed =>
        /\ sess.served = 1 =>
              /\ lookups = <<req.Fqdn>>
              /\ sess.device = GetDeviceByFQDN(cfg, req.Fqdn).device
              /\ sess.username = req.Username
              /\ sess.password = req.Password
              /\ sess.protocol = (IF req.Protocol = "" THEN "ssh" ELSE req.Protocol)
        /\ sess.served > 1 => lookups = <<>>
        /\ \A i \in 1..Len(calls) :
              /\ calls[i].adapter = StreamAdapter(sess.protocol)
              /\ calls[i].hostname = sess.device.Hostname
              /\ calls[i].username = sess.username
              /\ calls[i].password = sess.password
              /\ calls[i].command = req.Command
        /\ Len(calls) = (IF StreamAdapter(sess.protocol) = "none" THEN 0 ELSE 1)
        /\ Len(sess.got) = sess.served
        /\ sess.got[sess.served] = req.Command
        /\ sess.sent = UpTo(IF resp.status = "SendError"
                            THEN sess.served - 1 ELSE sess.served)

\* C13: StreamCommand initialises once, from its first message: what it bound
\* stays fixed for the stream's lifetime, later messages contribute their
\* command only, and every message received after initialisation gets exactly
\* one response, in request order.
C13_InitialisesOnce == []ServedAsBound /\ BoundOnce

\* a second message naming another device, user, secret and protocol was
\* served on the first message's device, by the first message's adapter
C13_Witness ==
    /\ StreamServed
    /\ sess.served = 2
    /\ sess.sent = <<1, 2>>
    /\ sess.got = <<<<>>, <<"c">>>>
    /\ req.Protocol = "telnet"
    /\ sess.protocol = "ssh"
    /\ sess.username = <<"u">>
    /\ sess.device.Hostname = "h1"
    /\ GetDeviceByFQDN(cfg, req.Fqdn).err = Nil
    /\ calls # <<>>
    /\ calls[1].adapter = "ssh"
    /\ calls[1].hostname = "h1"

\* StreamCommand has returned
StreamDone == pc = "done" /\ req.op = "StreamCommand"

\* how the handler ended: success on the client's end-of-stream, the receive
\* error on any other failure of stream.Recv, the send error on a failed
\* stream.Send (or not-found on the first message), and it runs on only
\* after a response was written
EndsByStatus ==
    /\ StreamDone =>
          /\ req.ev = "EOF" => resp.status = "OK"
          /\ req.ev = "error" => resp.status = "RecvError"
          /\ req.ev = "msg" => resp.status \in {"SendError", "NotFound"}
          /\ req.ev \in {"EOF", "error"} => calls = <<>> /\ lookups = <<>>
          /\ resp.status = "SendError" =>
                sess.init /\ sess.sent = UpTo(sess.served - 1)
    /\ (pc = "streaming") =>
          resp.status = "streaming" /\ sess.sent = UpTo(sess.served)

\* the turn that meets the end of the client's stream, or a receive error,
\* invokes no adapter and writes no response; nothing follows the return
EndsQuietly ==
    [][/\ (req'.op = "StreamCommand" /\ req'.ev \in {"EOF", "error"}) =>
            (pc' = "done" /\ sess' = sess /\ calls' = <<>>)
       /\ pc # "done"]_vars

\* C14: in StreamCommand the client's end-of-stream, before the first message
\* or after any number of served commands, makes the handler return success
\* without another adapter invocation or response; any other receive error,
\* and a send error, end the handler with that error.
C14_StreamEnds == []EndsByStatus /\ EndsQuietly

\* end-of-stream after two served commands: success, both responses written
C14_Witness ==
    /\ StreamDone
    /\ req.ev = "EOF"
    /\ resp.status = "OK"
    /\ sess.served = 2
    /\ sess.sent = <<1, 2>>
    /\ calls = <<>>

(***************************************************************************)
(* The SSH bastion: construction from the host-key and authorized-keys     *)
(* files, the listener, and the handshake of one inbound connection.       *)
(***************************************************************************)
Keys == {"k1", "k2"}

\* the host private-key file: absent, not readable, not a private key, or a key
HostKeyFiles ==
    {[state |-> st] : st \in {"absent", "unreadable", "malformed", "valid"}}

\* a line of the authorized-keys file
KeyLine(k) == [kind |-> "key", key |-> k]
Blank == [kind |-> "blank", key |-> ""]
Comment == [kind |-> "comment", key |-> ""]
Junk == [kind |-> "junk", key |-> ""]

\* the authorized-keys file: absent, not readable, or its lines
AuthorizedKeysFiles ==
    {[state |-> "absent", lines |-> <<>>], [state |-> "unreadable", lines |-> <<>>]}
    \cup {[state |-> "present", lines |-> l] :
            l \in {<<>>, <<Junk>>, <<Comment, KeyLine("k1")>>,
                   <<KeyLine("k1"), Blank, KeyLine("k2"), KeyLine("k1")>>}}

\* BastionServer.loadAuthorizedKeys: (err, the key table)
loadAuthorizedKeys(file) ==
    IF file.state = "absent" THEN [err |-> Nil, keys |-> {}]
    ELSE IF file.state # "present" THEN [err |-> "read error", keys |-> {}]
    ELSE [err |-> Nil,
          keys |-> {file.lines[i].key : i \in {j \in 1..Len(file.lines) :
                                                 file.lines[j].kind = "key"}}]

\* generateHostKey: never writes a key, always fails
generateHostKey(file) ==
    [signer |-> Nil, err |-> "host key file not found", written |-> FALSE]

\* a host-key loader that makes up for a missing file with a fresh key
loadHostKey_Generates(file) ==
    IF file.state = "absent"
    THEN [signer |-> "generated", err |-> Nil, written |-> TRUE]
    ELSE IF file.state = "unreadable"
    THEN [signer |-> Nil, err |-> "read error", written |-> FALSE]
    ELSE IF file.state = "malformed"
    THEN [signer |-> Nil, err |-> "parse error", written |-> FALSE]
    ELSE [signer |-> "loaded", err |-> Nil, written |-> FALSE]

\* loadHostKey: (signer, err, whether a key file was written)
loadHostKey(file) ==
    IF file.state = "absent" THEN generateHostKey(file)
    ELSE IF file.state = "unreadable"
    THEN [signer |-> Nil, err |-> "read error", written |-> FALSE]
    ELSE IF file.state = "malformed"
    THEN [signer |-> Nil, err |-> "parse error", written |-> FALSE]
    ELSE [signer |-> "loaded", err |-> Nil, written |-> FALSE]

\* NewBastionServer: the authorized keys are loaded first, then the host key
NewBastionServer ==
    /\ bastion.state = "none"
    /\ LET a == loadAuthorizedKeys(bastion.authFile)
           h == loadHostKey(bastion.hostKeyFile)
       IN bastion' =
            IF a.err # Nil
            THEN [bastion EXCEPT !.state = "failed",
                                 !.err = "failed to load authorized keys"]
            ELSE IF h.err # Nil
            THEN [bastion EXCEPT !.state = "failed", !.authorizedKeys = a.keys,
                                 !.err = "failed to load host key",
                                 !.hostKeyFile = IF h.written THEN [state |-> "valid"]
                                                 ELSE @]
            ELSE [bastion EXCEPT !.state = "built", !.authorizedKeys = a.keys,
                                 !.hostKeyFile = IF h.written THEN [state |-> "valid"]
                                                 ELSE @]
    /\ UNCHANGED <<cfg, pc, req, resp, lookups, calls, sess, subVars, session>>

\* startSSHBastion after a successful construction, up to BastionServer.Start's
\* net.Listen
Start ==
    /\ bastion.state = "built"
    /\ \E listenOK \in BOOLEAN :
        bastion' = IF listenOK
                   THEN [bastion EXCEPT !.state = "listening", !.listener = "open"]
                   ELSE [bastion EXCEPT !.state = "failed", !.err = "failed to listen"]
    /\ UNCHANGED <<cfg, pc, req, resp, lookups, calls, sess, subVars, session>>

\* a key callback that lets every key in
publicKeyCallback_AcceptAll(authorizedKeys, key) == Nil

\* BastionServer.publicKeyCallback: nil (accept) or an error (reject)
publicKeyCallback(authorizedKeys, key) ==
    IF authorizedKeys = {} THEN Nil
    ELSE IF key \in authorizedKeys THEN Nil
    ELSE "unknown public key"

\* the user names of the handshake (sshConn.User())
LoginUsers == {<<"o">>}

\* the keys a client offers during the handshake, in order
OfferedKeys == {<<>>, <<"k1">>, <<"k2">>, <<"k2", "k1">>}

\* BastionServer.handleConnection up to the end of the handshake: the
\* connection is established with the first offered key the callback accepts,
\* and closed when there is none or the handshake fails otherwise
handleConnection ==
    /\ bastion.listener = "open"
    /\ session.conn = "none"
    /\ \E offered \in OfferedKeys, user \in LoginUsers, transportOK \in BOOLEAN :
        LET verdicts == [i \in 1..Len(offered) |->
                            publicKeyCallback(bastion.authorizedKeys, offered[i])]
            accepted == {i \in 1..Len(offered) : verdicts[i] = Nil}
        IN session' =
             IF transportOK /\ accepted # {}
             THEN [session EXCEPT
                     !.conn = "established", !.offered = offered,
                     !.verdicts = verdicts, !.user = user,
                     !.key = offered[CHOOSE i \in accepted :
                                        \A j \in accepted : i <= j]]
             ELSE [session EXCEPT !.conn = "dropped", !.offered = offered,
                                  !.verdicts = verdicts]
    /\ UNCHANGED <<cfg, pc, req, resp, lookups, calls, sess, subVars, bastion>>

(***************************************************************************)
(* The bastion's line editor.  What the client types is a sequence of      *)
(* bytes; the control bytes are named, the printable ones stand for        *)
(* themselves.  channel.Read fails (io.EOF) when the client has gone, which *)
(* is the end of the typed sequence.                                       *)
(***************************************************************************)
CtrlC == "^C"
CtrlD == "^D"
DEL == "DEL"
BS == "BS"
ESC == "ESC"
\* the backtick (byte 96)
Backtick == "BQ"
\* the double quote (byte 34)
DQuote == "DQ"

\* char >= 32 && char < 127, over the bytes the model types
Printable == {"e", "x", "i", "t", "q", "u", "l", "s", "h", "a", "b", "z", "v", "p",
              " ", ".", "!", "$", Backtick, DQuote, "\\"}

\* strings.TrimSpace
RECURSIVE TrimLeft(_)
TrimLeft(s) == IF s # <<>> /\ Head(s) = " " THEN TrimLeft(Tail(s)) ELSE s

RECURSIVE TrimRight(_)
TrimRight(s) ==
    IF s # <<>> /\ s[Len(s)] = " " THEN TrimRight(SubSeq(s, 1, Len(s) - 1)) ELSE s

TrimSpace(s) == TrimRight(TrimLeft(s))

\* strings.Fields
Fields(s) == SelectSeq(Split(s, " "), LAMBDA f : f # <<>>)

\* strings.HasPrefix
HasPrefix(s, prefix) == Len(s) >= Len(prefix) /\ SubSeq(s, 1, Len(prefix)) = prefix

\* BastionServer.readLine from the bytes still to come, line being the bytes
\* kept so far: (line, err, echo written to the channel)
RECURSIVE readLineFrom(_, _, _)
readLineFrom(input, line, echo) ==
    IF input = <<>> THEN [line |-> <<>>, err |-> "EOF", echo |-> echo]
    ELSE LET char == Head(input)
             rest == Tail(input)
         IN CASE char \in {"\r", "\n"} ->
                    [line |-> line, err |-> Nil, echo |-> echo \o <<"\r", "\n">>]
              [] char \in {DEL, BS} ->
                    IF Len(line) > 0
                    THEN readLineFrom(rest, SubSeq(line, 1, Len(line) - 1),
                                      echo \o <<BS, " ", BS>>)
                    ELSE readLineFrom(rest, line, echo)
              [] char = CtrlC ->
                    [line |-> <<>>, err |-> "interrupted",
                     echo |-> echo \o <<"^", "C", "\r", "\n">>]
              [] char = CtrlD ->
                    IF Len(line) = 0
                    THEN [line |-> <<"e", "x", "i", "t">>, err |-> Nil, echo |-> echo]
                    ELSE readLineFrom(rest, line, echo)
              [] OTHER ->
                    IF char \in Printable
                    THEN readLineFrom(rest, Append(line, char), Append(echo, char))
                    ELSE readLineFrom(rest, line, echo)

\* readLine without a single channel.Write
readLine_Silent(input) == [readLineFrom(input, <<>>, <<>>) EXCEPT !.echo = <<>>]

readLine(input) == readLineFrom(input, <<>>, <<>>)

\* BastionServer.readPassword from the bytes still to come: (password, err,
\* echo written to the channel); the function holds no channel.Write, so the
\* echo is empty however it returns; a backslash is held back and dropped
\* before one of the five bytes of the unescape list
RECURSIVE readPasswordFrom(_, _, _)
readPasswordFrom(input, password, lastChar) ==
    IF input = <<>> THEN [password |-> <<>>, err |-> "EOF", echo |-> <<>>]
    ELSE LET char == Head(input)
             rest == Tail(input)
         IN CASE char \in {"\r", "\n"} ->
                    [password |-> password, err |-> Nil, echo |-> <<>>]
              [] char \in {DEL, BS} ->
                    readPasswordFrom(rest,
                                     IF Len(password) > 0
                                     THEN SubSeq(password, 1, Len(password) - 1)
                                     ELSE password,
                                     lastChar)
              [] char = CtrlC ->
                    [password |-> <<>>, err |-> "interrupted", echo |-> <<>>]
              [] char = "\\" -> readPasswordFrom(rest, password, char)
              [] OTHER ->
                    IF char \in Printable
                    THEN IF lastChar = "\\" /\ char \in {"!", "$", Backtick, DQuote, "\\"}
                         THEN readPasswordFrom(rest, Append(password, char), "")
                         ELSE IF lastChar = "\\"
                         THEN readPasswordFrom(rest, password \o <<lastChar, char>>, "")
                         ELSE readPasswordFrom(rest, Append(password, char), "")
                    ELSE readPasswordFrom(rest, password, lastChar)

\* readPassword echoing a star for every byte it reads
readPassword_Stars(input) ==
    [readPasswordFrom(input, <<>>, "") EXCEPT !.echo = [i \in 1..Len(input) |-> "*"]]

readPassword(input) == readPasswordFrom(input, <<>>, "")

(***************************************************************************)
(* The two readers applied to every bounded sequence of typed bytes.       *)
(***************************************************************************)
\* bytes typed in one read, at most
MaxKeys == 4

\* the bytes typed: printable ones, the backslash, both backspaces, both line
\* ends, ^C, ^D and another control byte
TypedBytes == {"a", "!", "\\", DEL, BS, "\r", "\n", CtrlC, CtrlD, ESC}

InitReaders ==
    /\ cfg = RegistryLab
    /\ pc = "idle"
    /\ req \in {[op |-> "input", s |-> s] : s \in StrUpTo(TypedBytes, MaxKeys)}
    /\ resp = NoResp
    /\ lookups = <<>>
    /\ calls = <<>>
    /\ sess = NoSession
    /\ SubIdle
    /\ BastionIdle

ReadLine ==
    /\ pc = "idle"
    /\ pc' = "done"
    /\ req' = [req EXCEPT !.op = "readLine"]
    /\ resp' = readLine(req.s)
    /\ UNCHANGED <<bastionVars, subVars, cfg, lookups, calls, sess>>

ReadPassword ==
    /\ pc = "idle"
    /\ pc' = "done"
    /\ req' = [req EXCEPT !.op = "readPassword"]
    /\ resp' = readPassword(req.s)
    /\ UNCHANGED <<bastionVars, subVars, cfg, lookups, calls, sess>>

NextReaders == ReadLine \/ ReadPassword

SpecReaders == InitReaders /\ [][NextReaders]_vars

(***************************************************************************)
(* The bastion's channels: handleChannel, handleSession's request loop,    *)
(* the interactive shell, handleCommandWithPty and proxyToDeviceWithPty.   *)
(* One channel of one connection is followed.                              *)
(***************************************************************************)
\* handleSession or handleDirectTCPIP returned: the deferred channel.Close()
\* with the channel its request queue closes, which ends the goroutines that
\* range over it
Closed(s, cause) ==
    [s EXCEPT !.channel = "closed", !.at = "", !.cause = cause, !.watchers = {}]

\* handleCommandWithPty returned to its caller: the interactive loop writes a
\* line break and prompts again, handleSession's exec case replies and returns
ReturnToCaller(s) ==
    IF s.mode = "shell"
    THEN [s EXCEPT !.at = "prompt"]
    ELSE Closed([s EXCEPT !.request.reply = "true"], "exec returned")

\* handleCommandWithPty up to the username prompt
StartCommand(s, command) ==
    LET parts == Fields(command)
        d == GetDeviceByFQDN(cfg, parts[2])
    IN IF Len(parts) < 2 \/ parts[1] # <<"s", "s", "h">> THEN ReturnToCaller(s)
       ELSE IF d.err # Nil THEN ReturnToCaller(s)
       ELSE [s EXCEPT !.at = "username", !.device = d.device, !.secret = NoSecretRead]

ChannelTypes == {"session", "direct-tcpip", "x11"}

\* BastionServer.handleChannel, and handleSession or handleDirectTCPIP up to
\* the first wait
handleChannel ==
    /\ session.conn = "established"
    /\ session.channel = "none"
    /\ \E type \in ChannelTypes, parseOK \in BOOLEAN, acceptOK \in BOOLEAN,
          dialOK \in BOOLEAN :
        LET s == [session EXCEPT !.handled = @ + 1]
        IN session' =
             CASE type = "session" ->
                    IF acceptOK
                    THEN [s EXCEPT !.channel = "session", !.at = "requests"]
                    ELSE [s EXCEPT !.channel = "failed"]
               [] type = "direct-tcpip" ->
                    IF ~parseOK THEN [s EXCEPT !.channel = "rejected"]
                    ELSE IF ~acceptOK THEN [s EXCEPT !.channel = "failed"]
                    ELSE IF ~dialOK THEN Closed(s, "dial failed")
                    ELSE [s EXCEPT !.channel = "forward", !.at = "copying",
                                   !.backend = @ + 1, !.opened = @ + 1,
                                   !.fwd.toClient = TRUE, !.fwd.toTarget = TRUE]
               [] OTHER -> [s EXCEPT !.channel = "rejected"]
    /\ UNCHANGED <<cfg, pc, req, resp, lookups, calls, sess, subVars, bastion>>

\* one end of the forwarding closes: the io.Copy that reads from it gets EOF
\* and returns, its goroutine calls wg.Done()
ForwardClose ==
    /\ session.channel = "forward"
    /\ \/ /\ session.fwd.client = "open"
          /\ session' = [session EXCEPT !.fwd.client = "closed", !.fwd.toTarget = FALSE]
       \/ /\ session.fwd.target = "open"
          /\ session' = [session EXCEPT !.fwd.target = "closed", !.fwd.toClient = FALSE]
    /\ UNCHANGED <<cfg, pc, req, resp, lookups, calls, sess, subVars, bastion>>

\* the end still open sends bytes and the write to the closed end fails: the
\* other io.Copy returns too
ForwardWriteFails ==
    /\ session.channel = "forward"
    /\ \/ /\ session.fwd.client = "closed" /\ session.fwd.toClient
          /\ session' = [session EXCEPT !.fwd.toClient = FALSE]
       \/ /\ session.fwd.target = "closed" /\ session.fwd.toTarget
          /\ session' = [session EXCEPT !.fwd.toTarget = FALSE]
    /\ UNCHANGED <<cfg, pc, req, resp, lookups, calls, sess, subVars, bastion>>

\* handleDirectTCPIP after wg.Wait(): both copies ended, the deferred closes
\* of the target connection and of the channel run
ForwardEnd ==
    /\ session.channel = "forward"
    /\ ~session.fwd.toClient /\ ~session.fwd.toTarget
    /\ session' = Closed([session EXCEPT !.backend = @ - 1], "forward ended")
    /\ UNCHANGED <<cfg, pc, req, resp, lookups, calls, sess, subVars, bastion>>

\* pty-req payloads: whole ones (fields = 3: type, columns, rows and the
\* rest) with and without a type, a column count and a row count, and an
\* empty one, which ends before the type
PtyPayloads ==
    {[fields |-> 3, Term |-> "xterm", Columns |-> 0, Rows |-> 100],
     [fields |-> 3, Term |-> "", Columns |-> 100, Rows |-> 0],
     [fields |-> 0, Term |-> "", Columns |-> 0, Rows |-> 0]}

\* ssh.Unmarshal(req.Payload, &termInfo): the fields are filled in order, a
\* short payload is an error that leaves the fields it did not reach alone
Unmarshal(payload, termInfo) ==
    [err |-> IF payload.fields < 3 THEN "ssh: short read" ELSE Nil,
     termInfo |-> [Term |-> IF payload.fields >= 1 THEN payload.Term ELSE termInfo.Term,
                   Columns |-> IF payload.fields >= 2 THEN payload.Columns
                               ELSE termInfo.Columns,
                   Rows |-> IF payload.fields >= 3 THEN payload.Rows ELSE termInfo.Rows]]

\* the sizes of handleSession's initial termInfo used for a client that sent none
PtyDefaults_InitialSize(termInfo) ==
    [termInfo EXCEPT !.Columns = IF @ = 0 THEN 80 ELSE @,
                     !.Rows = IF @ = 0 THEN 24 ELSE @]

\* "Use defaults if client didn't send terminal size"
PtyDefaults(termInfo) ==
    [termInfo EXCEPT !.Columns = IF @ = 0 THEN 120 ELSE @,
                     !.Rows = IF @ = 0 THEN 30 ELSE @]

\* the request types of handleSession's default case
OtherRequests == {"env", "window-change"}

\* the commands of an exec request
ExecCommands ==
    {<<"s", "s", "h", " ", "a">>, <<"s", "s", "h", " ", "z">>, <<"l", "s">>}

\* the four bytes of the length prefix of an exec payload
ExecPrefix == <<"NUL", "NUL", "NUL", "LEN">>

\* the payloads of an exec request: a prefixed command, the prefix alone, or
\* fewer bytes than the prefix has
ExecPayloads ==
    {ExecPrefix \o command : command \in ExecCommands \cup {<<>>}}
        \cup {SubSeq(ExecPrefix, 1, n) : n \in 0..3}

\* string(req.Payload[4:]): the bytes after the prefix, or a run-time panic
\* (slice bounds out of range) when the payload is shorter than the prefix
PayloadCommand(payload) ==
    [panic |-> Len(payload) < 4, command |-> SubSeq(payload, 5, Len(payload))]

\* one turn of handleSession's loop over the session requests; a panic of
\* the handler's goroutine is not recovered and ends the process
SessionRequest ==
    /\ session.channel = "session"
    /\ session.at = "requests"
    /\ \/ \E payload \in PtyPayloads :
            session' = [session EXCEPT
                          !.termInfo = PtyDefaults(Unmarshal(payload, @).termInfo),
                          !.pty = IF Unmarshal(payload, session.termInfo).err = Nil
                                  THEN payload ELSE @,
                          !.request = [type |-> "pty-req", reply |-> "true"]]
       \/ session' = [session EXCEPT !.mode = "shell", !.at = "prompt",
                                     !.request = [type |-> "shell", reply |-> "true"]]
       \/ \E payload \in ExecPayloads :
            session' =
                IF PayloadCommand(payload).panic
                THEN Closed([session EXCEPT
                               !.request = [type |-> "exec", reply |-> ""]], "panic")
                ELSE StartCommand([session EXCEPT
                                     !.mode = "exec",
                                     !.request = [type |-> "exec", reply |-> ""]],
                                  PayloadCommand(payload).command)
       \/ \E type \in OtherRequests :
            session' = [session EXCEPT !.request = [type |-> type, reply |-> "false"]]
       \/ session' = Closed([session EXCEPT !.gone = TRUE], "disconnect")
    /\ bastion' = IF session'.cause = "panic"
                  THEN [bastion EXCEPT !.state = "crashed", !.listener = "closed"]
                  ELSE bastion
    /\ UNCHANGED <<cfg, pc, req, resp, lookups, calls, sess, subVars>>

\* what the client types: nothing but what a client that has gone can send
Typed(inputs) == IF session.gone THEN {<<>>} ELSE inputs

\* lines typed at the `bastion> ` prompt
PromptInputs ==
    {<<>>, <<"\r">>, <<" ", "\n">>,
     <<"e", "x", "i", "t", "\r">>, <<"q", "u", "i", "t", "\r">>,
     <<"l", "s", "\r">>, <<"x", DEL, "l", "i", "s", "t", "\r">>,
     <<"s", "s", "h", " ", "a", "\r">>, <<"s", "s", "h", " ", " ", "a", ".", "b", "\r">>,
     <<"s", "s", "h", " ", "z", "\r">>, <<"s", "s", "h", " ", "\r">>,
     <<ESC, "x", "\r">>,
     <<CtrlC>>, <<"e", "x", CtrlC>>, <<CtrlD>>, <<"l", CtrlD, "s", "\r">>}

Exit == <<"e", "x", "i", "t">>
Quit == <<"q", "u", "i", "t">>

\* one turn of the interactive loop of runInteractiveShellWithTermInfo:
\* prompt, readLine, and the command up to its first wait
ShellPrompt ==
    /\ session.channel = "session"
    /\ session.at = "prompt"
    /\ \E input \in Typed(PromptInputs) :
        LET r == readLine(input)
            command == TrimSpace(r.line)
        IN session' =
             IF r.err # Nil
             THEN Closed([session EXCEPT !.gone = (r.err = "EOF")],
                         IF r.err = "EOF" THEN "disconnect" ELSE r.err)
             ELSE IF command = <<>> THEN session
             ELSE IF command \in {Exit, Quit} THEN Closed(session, "exit")
             ELSE IF command \in {<<"l", "i", "s", "t">>, <<"l", "s">>} THEN session
             ELSE IF HasPrefix(command, <<"s", "s", "h", " ">>)
             THEN StartCommand(session, command)
             ELSE session
    /\ UNCHANGED <<cfg, pc, req, resp, lookups, calls, sess, subVars, bastion>>

UsernameInputs == {<<>>, <<"\r">>, <<"v", "\r">>, <<"v", CtrlC>>}

\* handleCommandWithPty at the username prompt
UsernamePrompt ==
    /\ session.channel = "session"
    /\ session.at = "username"
    /\ \E input \in Typed(UsernameInputs) :
        LET r == readLine(input)
            username == TrimSpace(r.line)
        IN session' =
             IF r.err # Nil
             THEN ReturnToCaller([session EXCEPT !.gone = (r.err = "EOF")])
             ELSE [session EXCEPT
                     !.at = "password",
                     !.username = IF username = <<>> THEN session.user ELSE username]
    /\ UNCHANGED <<cfg, pc, req, resp, lookups, calls, sess, subVars, bastion>>

PasswordInputs ==
    {<<>>, <<"\r">>, <<"p", "\r">>, <<"\\", "!", "p", "\r">>, <<"p", CtrlC>>,
     <<"p", DEL, "\r">>, <<ESC, "p", "\n">>}

\* backend connections dialed on behalf of one channel, at most
MaxDials == 2

\* how proxyToDeviceWithPty's set-up ends
ProxyOutcomes == {"dial", "session", "pty", "shell", "ok"}

\* targetSession.RequestPty with rows and columns in each other's place
RequestPty_Swapped(termInfo) ==
    [term |-> IF termInfo.Term = "" THEN "xterm-256color" ELSE termInfo.Term,
     h |-> IF termInfo.Columns = 0 THEN 80 ELSE termInfo.Columns,
     w |-> IF termInfo.Rows = 0 THEN 24 ELSE termInfo.Rows]

\* targetSession.RequestPty(term, rows, cols, modes) as proxyToDeviceWithPty
\* calls it: x/crypto's parameters are (term, h, w, modes)
RequestPty(termInfo) ==
    [term |-> IF termInfo.Term = "" THEN "xterm-256color" ELSE termInfo.Term,
     h |-> IF termInfo.Rows = 0 THEN 24 ELSE termInfo.Rows,
     w |-> IF termInfo.Columns = 0 THEN 80 ELSE termInfo.Columns]

\* handleCommandWithPty at the password prompt, and proxyToDeviceWithPty up
\* to targetSession.Wait()
PasswordPrompt ==
    /\ session.channel = "session"
    /\ session.at = "password"
    /\ session.opened < MaxDials
    /\ \E input \in Typed(PasswordInputs), outcome \in ProxyOutcomes :
        LET r == readPassword(input)
            dialed == [session EXCEPT !.password = r.password, !.opened = @ + 1]
            asked == [dialed EXCEPT !.backendPty = RequestPty(session.termInfo)]
            watched == [asked EXCEPT !.watchers = @ \cup {dialed.opened}]
            next ==
                IF r.err # Nil
                THEN ReturnToCaller([session EXCEPT !.gone = (r.err = "EOF")])
                ELSE CASE outcome = "dial" ->
                            ReturnToCaller([session EXCEPT !.password = r.password])
                       [] outcome = "session" -> ReturnToCaller(dialed)
                       [] outcome = "pty" -> ReturnToCaller(asked)
                       [] outcome = "shell" -> ReturnToCaller(watched)
                       [] outcome = "ok" ->
                            [watched EXCEPT !.at = "proxying", !.backend = @ + 1]
        IN session' = [next EXCEPT
                         !.secret = [err |-> r.err, echo |-> r.echo,
                                     opened |-> next.opened - session.opened]]
    /\ UNCHANGED <<cfg, pc, req, resp, lookups, calls, sess, subVars, bastion>>

\* the backend session that is open: its number among those dialed, or 0
OpenSession(s) == IF s.at = "proxying" THEN s.opened ELSE 0

\* the sizes a window-change payload carries
WinSizes == {[Rows |-> 50, Columns |-> 200]}

\* the client sends a window-change request: one of the goroutines ranging
\* over the requests of the channel receives it and calls WindowChange on
\* the backend session it was started for
WindowChange ==
    /\ session.channel = "session"
    /\ ~session.gone
    /\ \E size \in WinSizes, to \in session.watchers :
        session' = [session EXCEPT
                      !.winch = [Rows |-> size.Rows, Columns |-> size.Columns,
                                 h |-> size.Rows, w |-> size.Columns,
                                 to |-> to, open |-> OpenSession(session)]]
    /\ UNCHANGED <<cfg, pc, req, resp, lookups, calls, sess, subVars, bastion>>

\* targetSession.Wait() returned and the backend connection is left open
ProxyEnd_LeavesOpen ==
    /\ session.channel = "session"
    /\ session.at = "proxying"
    /\ \E gone \in {session.gone, TRUE} :
        session' = ReturnToCaller([session EXCEPT !.gone = gone])
    /\ UNCHANGED <<cfg, pc, req, resp, lookups, calls, sess, subVars, bastion>>

\* targetSession.Wait() returned: the backend session has ended, the deferred
\* closes run, handleCommandWithPty returns
ProxyEnd ==
    /\ session.channel = "session"
    /\ session.at = "proxying"
    /\ \E gone \in {session.gone, TRUE} :
        session' = ReturnToCaller([session EXCEPT !.backend = @ - 1, !.gone = gone])
    /\ UNCHANGED <<cfg, pc, req, resp, lookups, calls, sess, subVars, bastion>>

InitBastion ==
    /\ cfg \in Registries
    /\ pc = "idle"
    /\ req = [op |-> "none"]
    /\ resp = NoResp
    /\ lookups = <<>>
    /\ calls = <<>>
    /\ sess = NoSession
    /\ SubIdle
    /\ bastion \in {NoBastion(h, a) : h \in HostKeyFiles, a \in AuthorizedKeysFiles}
    /\ session = NoConn

NextBastion ==
    \/ NewBastionServer
    \/ Start
    \/ handleConnection
    \/ handleChannel
    \/ ForwardClose
    \/ ForwardWriteFails
    \/ ForwardEnd
    \/ SessionRequest
    \/ ShellPrompt
    \/ UsernamePrompt
    \/ PasswordPrompt
    \/ WindowChange
    \/ ProxyEnd

SpecBastion == InitBastion /\ [][NextBastion]_vars

(***************************************************************************)
(* The gateway as main starts it: the gRPC server with the command and the *)
(* telemetry service, and the bastion, over one registry.  The services    *)
(* share nothing but the registry, which none of them writes, so one       *)
(* inbound session of one service is followed at a time.                   *)
(***************************************************************************)
InitGateway ==
    /\ cfg \in Registries
    /\ pc = "idle"
    /\ req = [op |-> "none"]
    /\ resp = NoResp
    /\ lookups = <<>>
    /\ calls = <<>>
    /\ sess = NoSession
    /\ SubIdle
    /\ bastion = NoBastion([state |-> "valid"], [state |-> "absent", lines |-> <<>>])
    /\ session = NoConn

NextGateway ==
    \/ bastion.state = "none" /\ Next
    \/ bastion.state = "none" /\ NextGnmi
    \/ pc = "idle" /\ NextBastion

SpecGateway == InitGateway /\ [][NextGateway]_vars

(***************************************************************************)
(* Claims about the bastion (SpecBastion).                                 *)
(***************************************************************************)
\* C15: with a non-empty authorized-key table a client key is accepted if and
\* only if it is in the table, and with an empty table (a missing
\* authorized-keys file included) every key is accepted; a connection none of
\* whose keys was accepted is dropped during the handshake and no channel of
\* it is ever handled.
C15_PublicKeyAuth ==
    /\ (bastion.state # "none" /\ bastion.authFile.state = "absent") =>
          bastion.authorizedKeys = {}
    /\ session.conn # "none" =>
          /\ \A i \in 1..Len(session.offered) :
                session.verdicts[i] = Nil <=>
                    (bastion.authorizedKeys = {}
                     \/ session.offered[i] \in bastion.authorizedKeys)
          /\ session.conn = "established" <=>
                (\E i \in 1..Len(session.offered) : session.key = session.offered[i])
          /\ (\A i \in 1..Len(session.offered) : session.verdicts[i] # Nil) =>
                session.conn = "dropped"
          /\ session.conn = "dropped" => session.handled = 0 /\ session.channel = "none"

\* a client whose only key is not in the non-empty table was dropped
C15_Witness ==
    /\ bastion.authorizedKeys = {"k1"}
    /\ session.offered = <<"k2">>
    /\ session.verdicts # <<Nil>>
    /\ session.conn = "dropped"
    /\ session.handled = 0

\* NewBastionServer neither generates nor writes a host key; it fails when
\* the host-key file is absent, and when the authorized-keys file is there
\* but cannot be read, not when that file is missing
ConstructionFailsFast ==
    [][bastion.state = "none" =>
         /\ bastion'.hostKeyFile = bastion.hostKeyFile
         /\ bastion'.authFile = bastion.authFile
         /\ bastion.hostKeyFile.state = "absent" =>
               bastion'.state = "failed" /\ bastion'.err # Nil
         /\ bastion.authFile.state = "unreadable" =>
               /\ bastion'.state = "failed"
               /\ bastion'.err = "failed to load authorized keys"
         /\ (bastion.authFile.state = "absent"
             /\ bastion.hostKeyFile.state = "valid") =>
               /\ bastion'.state = "built"
               /\ bastion'.err = Nil
               /\ bastion'.authorizedKeys = {}]_vars

\* a bastion whose construction failed never listens
FailedNeverListens ==
    /\ [](bastion.state = "failed" => bastion.listener = "none")
    /\ [][bastion.state = "failed" => bastion' = bastion]_vars
    /\ [](bastion.listener = "open" =>
            bastion.hostKeyFile.state = "valid"
            /\ bastion.authFile.state # "unreadable")

C17_CtrlCCancelsLine ==
    session.cause = "interrupted" =>
        session.channel = "session" /\ session.at = "prompt"

\* a session leaves proxying only with its backend session ended, and one
\* entered via `shell` is then back at the interactive prompt
LeavesProxyingOnBackendEnd ==
    [][(session.at = "proxying" /\ session'.at # "proxying") =>
         /\ session'.backend = 0
         /\ session.mode = "shell" =>
               session'.channel = "session" /\ session'.at = "prompt"]_vars

\* the bastion closes the channel of a session only after the client issued
\* exit or quit, or disconnected
ClosedOnExitOrDisconnect ==
    (session.channel = "closed" /\ session.mode \in {"shell", "exec"}) =>
        (session.cause \in {"exit", "disconnect"} \/ session.gone)

\* C18: a session leaves the proxying state only when the backend session
\* has ended (or could not be established), after which a `shell` session is
\* back at the interactive prompt; and in every session, one entered via
\* `exec` included, the bastion closes the outer channel only after the
\* client issued exit/quit or disconnected.
C18_SessionStateMachine == LeavesProxyingOnBackendEnd /\ []ClosedOnExitOrDisconnect

\* the channel of an `exec` session closed by the bastion when its backend
\* session had ended, the client still there
ExecClosedByBastion ==
    /\ session.channel = "closed"
    /\ session.mode = "exec"
    /\ session.cause = "exec returned"
    /\ session.opened = 1
    /\ ~session.gone

(***************************************************************************)
(* Claims about the whole gateway (SpecGateway).                           *)
(***************************************************************************)
\* the backend connections a telemetry RPC holds: its successful dials
GnmiConns == {i \in 1..Len(calls) : calls[i].adapter = "gnmi" /\ calls[i].err = Nil}

\* C19: every accepted inbound session (a bastion channel, a StreamCommand
\* stream, an ExecuteCommand call, a telemetry RPC) has at most one backend
\* session open on its behalf at any moment.
C19_OneBackendPerSession ==
    /\ session.backend <= 1
    /\ sess.open = 0
    /\ sess.peak <= 1
    /\ \A i \in 1..Len(calls) :
          calls[i].adapter # "gnmi" => calls[i].peak <= 1 /\ calls[i].left = 0
    /\ Len(calls) > 1 => \A i \in 1..Len(calls) : calls[i].adapter = "gnmi"
    /\ Cardinality(GnmiConns) <= 1
    /\ backendConn = "open" => Cardinality(GnmiConns) = 1

\* a shell session proxying to its second backend, the first one closed
C19_Witness ==
    /\ session.mode = "shell"
    /\ session.at = "proxying"
    /\ session.opened = 2
    /\ session.backend = 1

(***************************************************************************)
(* The log.  Every logger call of the dispatcher, the adapters, the        *)
(* telemetry proxy and the bastion's command handler is a line: its        *)
(* message and the values of its fields.  The operators below give the     *)
(* lines one handler call emits, from everything that is in scope where    *)
(* the code logs, the secret included.                                     *)
(***************************************************************************)
Line(msg, fields) == [msg |-> msg, fields |-> fields]

\* the steps of an adapter that come before its "Executing ..." line
BeforeCommand(adapter) ==
    CASE adapter = "ssh" -> {"dial", "session"}
      [] adapter = "telnet" ->
            {"connect", "deadline", "banner", "send_user", "prompt", "send_pass", "login"}
      [] adapter = "netconf" -> {"dial", "session", "subsystem", "stdin", "start", "hello"}

\* an adapter whose connection line carries the password as well
AdapterLog_WithPassword(adapter, hostname, port, username, password, command, fail) ==
    <<Line("Connecting to server", <<adapter, hostname, port, username, password>>)>>
    \o (IF fail \in BeforeCommand(adapter) THEN <<>>
        ELSE <<Line("Executing command", <<adapter, command>>)>>)

\* the lines of ExecuteSSHCommand, ExecuteTelnetCommand, ExecuteNetconfCommand:
\* address and username before the dial, the command before it is sent
AdapterLog(adapter, hostname, port, username, password, command, fail) ==
    <<Line("Connecting to server", <<adapter, hostname, port, username>>)>>
    \o (IF fail \in BeforeCommand(adapter) THEN <<>>
        ELSE <<Line("Executing command", <<adapter, command>>)>>)

\* the lines of the adapter invocation c, had its password been password
CallLog(c, password) ==
    AdapterLog(c.adapter, c.hostname, c.port, c.username, password, c.command, c.fail)

\* the lines of Server.ExecuteCommand for request r, its adapter invocations cl
ExecuteCommandLog(r, cl) ==
    LET d == GetDeviceByFQDN(cfg, r.Fqdn)
    IN <<Line("Received command execution request",
              <<r.Fqdn, r.Username, r.Protocol, r.Command>>)>>
       \o (IF Validate(r) # Nil THEN <<>>
           ELSE IF d.err # Nil THEN <<Line("Failed to get device config", <<d.err>>)>>
           ELSE <<Line("Routing to device", <<d.deviceName, d.device.Hostname>>)>>
                \o (IF SelectAdapter(r.Protocol) = "none" THEN <<>>
                    ELSE CallLog(cl[1], r.Password)
                         \o <<IF cl[1].err # Nil
                               THEN Line("Command execution failed", <<cl[1].err>>)
                               ELSE Line("Command executed successfully", <<>>)>>))

\* the lines of one turn of Server.StreamCommand's loop: r is what stream.Recv
\* returned, s the locals after the turn, cl its adapter invocations
StreamCommandLog(r, s, cl, status) ==
    (IF s.served = 0 \/ (s.served = 1 /\ r.ev = "msg")
     THEN <<Line("Starting stream command session", <<>>)>>
     ELSE <<>>)
    \o (IF r.ev = "EOF" THEN <<Line("Stream closed by client", <<>>)>>
        ELSE IF r.ev = "error" THEN <<Line("Error receiving stream", <<"recv error">>)>>
        ELSE IF status = "NotFound" THEN <<>>
        ELSE (IF s.served = 1
              THEN <<Line("Stream session initialized",
                          <<s.deviceName, s.username, s.protocol>>)>>
              ELSE <<>>)
             \o (IF cl = <<>> THEN <<>> ELSE CallLog(cl[1], s.password))
             \o (IF status = "SendError"
                 THEN <<Line("Error sending stream response", <<"send error">>)>>
                 ELSE <<>>))

\* the lines of a telemetry RPC (Capabilities, Get, Set, Subscribe) with the
\* given metadata and prefix: the request line with the target's FQDN, then
\* getBackendClient's line with the device name and the address dialed
GnmiLog(rpc, md, prefix) ==
    LET t == getTargetFromContext(md, prefix)
        d == GetDeviceByFQDN(cfg, t.fqdn)
    IN IF t.err # Nil THEN <<>>
       ELSE <<Line("gNMI request", <<rpc, t.fqdn>>)>>
            \o (IF d.err # Nil THEN <<>>
                ELSE <<Line("Connecting to backend gNMI server",
                            <<d.deviceName, d.device.Hostname, gnmiPort(d.device)>>)>>)

\* the lines of handleCommandWithPty once username and password are read
ProxyLog(username, password, termInfo) ==
    <<Line("Proxying to device with PTY",
           <<termInfo.Columns, termInfo.Rows, termInfo.Term>>)>>

(***************************************************************************)
(* Claims about the log (SpecGateway).                                     *)
(***************************************************************************)
\* the secrets a run could carry in place of its own
AltSecrets == {<<>>, <<"p">>, <<"q">>, <<"u">>}

\* a target string with its secret, if it carries one, replaced by q
WithTargetSecret(target, q) ==
    LET parts == Split(target, ":")
        Rest[i \in 3..Len(parts)] ==
            IF i = Len(parts) THEN <<>> ELSE <<":">> \o parts[i + 1] \o Rest[i + 1]
    IN IF Len(parts) < 3 THEN target
       ELSE parts[1] \o <<":">> \o parts[2] \o <<":">> \o q \o Rest[3]

TelemetryOps == {"Capabilities", "Get", "Set", "Subscribe"}

\* the secret of the inbound session under way
ActualSecret ==
    CASE req.op = "ExecuteCommand" -> req.Password
      [] req.op = "StreamCommand" -> sess.password
      [] req.op \in TelemetryOps -> getTargetFromContext(req.md, req.prefix).password
      [] OTHER -> session.password

\* the log lines of the inbound session's last handler call, had the secret
\* of the session been q and everything else, the backend's behaviour
\* included, been the same
LogWith(q) ==
    CASE req.op = "ExecuteCommand" ->
            ExecuteCommandLog([req EXCEPT !.Password = q], calls)
      [] req.op = "StreamCommand" ->
            StreamCommandLog(req, [sess EXCEPT !.password = q], calls, resp.status)
      [] req.op \in TelemetryOps ->
            IF req.op = "Subscribe" /\ req.first # "msg" THEN <<>>
            ELSE GnmiLog(req.op,
                         [req.md EXCEPT
                            !.targets = [i \in 1..Len(@) |-> WithTargetSecret(@[i], q)]],
                         IF req.prefix.nil THEN req.prefix
                         ELSE [req.prefix EXCEPT !.Target = WithTargetSecret(@, q)])
      [] session.at = "proxying" ->
            ProxyLog(session.username, q, session.termInfo)
      [] OTHER -> <<>>

\* the secrets that leave the handler on the same path: ExecuteCommand
\* rejects the empty password before it routes
SamePath(q) ==
    req.op = "ExecuteCommand" => ((q = <<>>) <=> (req.Password = <<>>))

\* C20: no log line of the dispatcher, the adapters, the telemetry proxy or
\* the bastion carries the secret of a request (request password, secret of
\* the target string, secret typed at the bastion's password prompt): a run
\* that differs in the secret only, the backend behaving the same, emits the
\* same log lines.
C20_SecretHygiene ==
    \A q \in AltSecrets : SamePath(q) => LogWith(q) = LogWith(ActualSecret)

\* a command with secret p ran on its device: five lines were logged, from
\* the request line to the adapter's and the outcome
C20_Witness ==
    /\ ExecDone
    /\ resp.status = "OK"
    /\ req.Password = <<"p">>
    /\ calls # <<>>
    /\ calls[1].password = <<"p">>
    /\ Len(LogWith(ActualSecret)) = 5

(***************************************************************************)
(* ExecuteCommand with its adapter call in flight.  The handler is given   *)
(* the call's context, the adapters are not: ExecuteSSHCommand,            *)
(* ExecuteTelnetCommand and ExecuteNetconfCommand take no context and dial *)
(* with their own 30 s timeouts.  The client may cancel or disconnect      *)
(* while the adapter runs.                                                 *)
(***************************************************************************)
\* Server.ExecuteCommand up to the call of the adapter
ExecuteCommandBegin ==
    /\ pc = "idle"
    /\ \E r \in CommandRequests :
        LET d == GetDeviceByFQDN(cfg, r.Fqdn)
            adapter == SelectAdapter(r.Protocol)
        IN /\ req' = r @@ [ctx |-> "live"]
           /\ calls' = <<>>
           /\ IF Validate(r) # Nil
              THEN /\ resp' = Return("InvalidArgument", Validate(r), NoResponse)
                   /\ lookups' = <<>>
                   /\ pc' = "done"
              ELSE /\ lookups' = <<r.Fqdn>>
                   /\ IF d.err # Nil
                      THEN /\ resp' = Return("NotFound", d.err, NoResponse)
                           /\ pc' = "done"
                      ELSE IF adapter = "none"
                      THEN /\ resp' = Return("InvalidArgument", "unsupported protocol",
                                             NoResponse)
                           /\ pc' = "done"
                      ELSE /\ resp' = NoResp
                           /\ pc' = "inflight"
    /\ UNCHANGED <<bastionVars, subVars, cfg, sess>>

\* the client cancels the call or disconnects: the call's context is done
ClientCancel ==
    /\ pc = "inflight"
    /\ req.ctx = "live"
    /\ req' = [req EXCEPT !.ctx = "cancelled"]
    /\ UNCHANGED <<bastionVars, subVars, cfg, pc, resp, lookups, calls, sess>>

\* the adapter returns, whatever has become of the context, and
\* Server.ExecuteCommand fills its response
ExecuteCommandEnd ==
    /\ pc = "inflight"
    /\ LET d == GetDeviceByFQDN(cfg, req.Fqdn)
           adapter == SelectAdapter(req.Protocol)
       IN \E env \in Envs(adapter) :
            LET c == Invoke(adapter, d.device.Hostname, AdapterPort(d.device, adapter),
                            req.Username, req.Password, req.Command, env)
            IN /\ calls' = <<c>>
               /\ resp' = Return("OK", "", CommandResponse(c.output, c.err))
    /\ pc' = "done"
    /\ UNCHANGED <<bastionVars, subVars, cfg, req, lookups, sess>>

NextInFlight == ExecuteCommandBegin \/ ClientCancel \/ ExecuteCommandEnd

SpecInFlight == InitCmd /\ [][NextInFlight]_vars

\* C21: when the client disconnects or cancels while an adapter call is in
\* flight, the backend session is aborted and the adapter call returns with
\* a transport error instead of running to its normal completion.
C21_CancelAborts ==
    (ExecDone /\ req.ctx = "cancelled") =>
        /\ calls # <<>>
        /\ calls[1].err # Nil
        /\ calls[1].fail = "cancelled"
        /\ resp.response.ExitCode = 1

\* the request of the finished ExecuteCommand has every field set
AllFieldsSet == \A i \in 1..4 : req[FieldOrder[i]] # <<>>

\* C23: ExecuteCommand validates, then resolves, then selects the protocol: a
\* request with all fields set, an unknown device and an unsupported tag fails
\* with not-found, and an adapter is invoked only after validation, resolve
\* and tag selection have all succeeded.
C23_StepOrder ==
    ExecDone =>
        /\ (/\ AllFieldsSet
            /\ GetDeviceByFQDN(cfg, req.Fqdn).err # Nil
            /\ SelectAdapter(req.Protocol) = "none")
           => resp.status = "NotFound" /\ lookups = <<req.Fqdn>> /\ calls = <<>>
        /\ calls # <<>> =>
              /\ AllFieldsSet
              /\ lookups = <<req.Fqdn>>
              /\ GetDeviceByFQDN(cfg, req.Fqdn).err = Nil
              /\ SelectAdapter(req.Protocol) = calls[1].adapter

\* a complete request for an unknown device with tag gnmi was answered
\* not-found
C23_Witness ==
    /\ ExecDone
    /\ AllFieldsSet
    /\ GetDeviceByFQDN(cfg, req.Fqdn).err # Nil
    /\ req.Protocol = "gnmi"
    /\ resp.status = "NotFound"

\* the last turn of StreamCommand served a message
ServedMessage == req.op = "StreamCommand" /\ req.ev = "msg" /\ sess.init

\* C24: StreamCommand maps the protocol tag as ExecuteCommand does: a first
\* message whose tag is not empty, ssh, telnet or netconf is rejected with
\* invalid-argument and no adapter invocation, and no response with
\* exit_code 0 is written for a command that no adapter executed.
C24_StreamTagMapping ==
    ServedMessage =>
        /\ SelectAdapter(sess.protocol) = "none" =>
              resp.status = "InvalidArgument" /\ calls = <<>>
        /\ (Responded /\ resp.response.ExitCode = 0) => calls # <<>>

\* a forwarding whose client or target end has closed
OneSideClosed ==
    /\ session.channel = "forward"
    /\ session.fwd.client = "closed" \/ session.fwd.target = "closed"

\* C22: direct-tcpip forwarding ends (handler returns, channel and target
\* connection closed) as soon as either side closes: once one end has closed
\* the handler is able to return without anything further from the other
\* end.
C22_EndsOnEitherClose == OneSideClosed => ENABLED ForwardEnd

\* what a whole pty-req payload leaves recorded
Recorded(payload) ==
    [Term |-> payload.Term,
     Columns |-> IF payload.Columns = 0 THEN 120 ELSE payload.Columns,
     Rows |-> IF payload.Rows = 0 THEN 30 ELSE payload.Rows]

\* the dispatch loop of the channel is still running, or the client left it
Dispatching ==
    \/ session.at = "requests"
    \/ session.channel = "closed" /\ session.cause = "disconnect"

\* C25: on an accepted session channel every pty-req is acknowledged and
\* records terminal type and dimensions of its payload (zero columns become
\* 120, zero rows 30), so that the recorded values are those of the last
\* pty-req; every request other than pty-req, shell and exec is declined; the
\* first shell or exec is acknowledged (exec once its command has returned)
\* and ends the dispatch loop.
C25_ChannelDispatch ==
    /\ session.pty.fields = 3 => session.termInfo = Recorded(session.pty)
    /\ session.request.type = "pty-req" =>
          session.request.reply = "true" /\ Dispatching
    /\ session.request.type \in OtherRequests =>
          session.request.reply = "false" /\ Dispatching
    /\ session.request.type = "shell" =>
          session.request.reply = "true" /\ session.at # "requests"
    /\ session.request.type = "exec" =>
          /\ session.at # "requests"
          /\ session.channel = "closed" => session.request.reply = "true"
          /\ session.channel # "closed" => session.request.reply = ""

\* a pty-req without sizes, then one with, were recorded and a shell request
\* ended the dispatch
C25_Witness ==
    /\ session.request = [type |-> "shell", reply |-> "true"]
    /\ session.pty.fields = 3 /\ session.pty.Columns = 0 /\ session.pty.Rows = 100
    /\ session.termInfo.Columns = 120 /\ session.termInfo.Rows = 100
    /\ session.at = "prompt"

\* C26: while a session is proxying, every window-change of the inbound
\* channel is forwarded as WindowChange with the same rows and columns to the
\* backend session currently open for it, on the first and on every later
\* handoff, and none is forwarded to a backend session that has ended.
C26_WindowChangeForwarding ==
    session.winch # NoWinch =>
        /\ session.winch.h = session.winch.Rows
        /\ session.winch.w = session.winch.Columns
        /\ session.winch.open # 0
        /\ session.winch.to = session.winch.open

\* the terminal the backend is asked for, given what handleSession recorded
ExpectedPty ==
    [term |-> IF session.termInfo.Term = "" THEN "xterm-256color"
              ELSE session.termInfo.Term,
     h |-> session.termInfo.Rows,
     w |-> session.termInfo.Columns]

\* C27: the PTY requested on the backend uses terminal type, rows (as height)
\* and columns (as width) recorded for the inbound session, xterm-256color
\* with 80 columns and 24 rows when the client sent no pty-req, and never an
\* empty terminal type or a zero dimension.
C27_BackendPty ==
    session.backendPty # NoBackendPty =>
        /\ session.backendPty = ExpectedPty
        /\ session.pty = NoPty =>
              session.backendPty = [term |-> "xterm-256color", h |-> 24, w |-> 80]
        /\ session.backendPty.term # ""
        /\ session.backendPty.h # 0 /\ session.backendPty.w # 0

\* a proxy runs on a PTY of 100 rows and, the client having sent no column
\* count, 120 columns
C27_Witness ==
    /\ session.at = "proxying"
    /\ session.pty.fields = 3 /\ session.pty.Term = "xterm"
    /\ session.backendPty = [term |-> "xterm", h |-> 100, w |-> 120]

(***************************************************************************)
(* Claims about the line reader and the secret reader (SpecReaders).       *)
(***************************************************************************)
\* the bytes of the escape list of the secret prompt
Escapable == {"!", "$", Backtick, DQuote, "\\"}

Backspaces == {DEL, BS}

LineEnds == {"\r", "\n"}

DropLast(s) == IF s = <<>> THEN s ELSE SubSeq(s, 1, Len(s) - 1)

\* what the typed bytes contribute to the secret as the escape rule states it:
\* a backslash and the printable byte after it count together
RECURSIVE Contributed(_, _)
Contributed(typed, secret) ==
    IF typed = <<>> THEN secret
    ELSE IF Head(typed) = "\\" /\ Len(typed) >= 2
    THEN Contributed(Tail(Tail(typed)),
                     IF typed[2] \in Escapable
                     THEN Append(secret, typed[2])
                     ELSE secret \o <<"\\", typed[2]>>)
    ELSE IF Head(typed) \in Backspaces THEN Contributed(Tail(typed), DropLast(secret))
    ELSE Contributed(Tail(typed), Append(secret, Head(typed)))

\* typed holds printable bytes and backspaces only and every backslash has a
\* printable byte after it
RECURSIVE WellEscaped(_)
WellEscaped(typed) ==
    IF typed = <<>> THEN TRUE
    ELSE IF Head(typed) = "\\"
    THEN Len(typed) >= 2 /\ typed[2] \in Printable /\ WellEscaped(Tail(Tail(typed)))
    ELSE Head(typed) \in Printable \cup Backspaces /\ WellEscaped(Tail(typed))

PasswordRead == pc = "done" /\ req.op = "readPassword"

\* C28: for every typed sequence ended by Enter, a backslash followed by one of
\* ! $ backtick double-quote backslash contributes only the second byte to
\* the secret (two backslashes yield one), a backslash followed by another
\* printable byte contributes both, and backspace removes the last
\* contributed byte.
C28_SecretEscapes ==
    (/\ PasswordRead
     /\ req.s # <<>>
     /\ req.s[Len(req.s)] \in LineEnds
     /\ WellEscaped(DropLast(req.s)))
    => /\ resp.err = Nil
       /\ resp.password = Contributed(DropLast(req.s), <<>>)

\* the bytes 32..126 among those typed
PrintableTyped == TypedBytes \cap Printable

\* the line that the bytes typed so far leave: printable bytes in order, each
\* backspace having deleted the byte that was last
RECURSIVE Kept(_)
Kept(typed) ==
    IF typed = <<>> THEN <<>>
    ELSE LET before == Kept(DropLast(typed))
             last == typed[Len(typed)]
         IN IF last \in PrintableTyped THEN Append(before, last)
            ELSE IF last \in Backspaces THEN DropLast(before)
            ELSE before

\* what the bytes typed so far have put on the screen: each accepted printable
\* byte, and backspace-space-backspace for each backspace that deleted one
RECURSIVE Shown(_)
Shown(typed) ==
    IF typed = <<>> THEN <<>>
    ELSE LET before == DropLast(typed)
             last == typed[Len(typed)]
         IN IF last \in PrintableTyped THEN Append(Shown(before), last)
            ELSE IF last \in Backspaces /\ Kept(before) # <<>>
            THEN Shown(before) \o <<BS, " ", BS>>
            ELSE Shown(before)

\* byte k of typed ends the read: a line end, ^C, or ^D on an empty line
Ends(typed, k) ==
    \/ typed[k] \in LineEnds \cup {CtrlC}
    \/ typed[k] = CtrlD /\ Kept(SubSeq(typed, 1, k - 1)) = <<>>

\* the position of the byte that ends the read of typed, 0 if none does
EndOf(typed) ==
    IF \E k \in 1..Len(typed) : Ends(typed, k)
    THEN CHOOSE k \in 1..Len(typed) :
             Ends(typed, k) /\ \A j \in 1..(k - 1) : ~Ends(typed, j)
    ELSE 0

LineRead == pc = "done" /\ req.op = "readLine"

C29_EchoSuppression ==
    session.secret # NoSecretRead =>
        /\ session.secret.echo = <<>>
        /\ session.secret.err = "interrupted" =>
              /\ session.secret.opened = 0
              /\ session.backend = 0
              /\ session.at # "proxying"

\* a ^C at the secret prompt of a second handoff took the session back to
\* the `bastion> ` prompt with one backend connection dialed in all
C29_Witness ==
    /\ session.secret.err = "interrupted"
    /\ session.mode = "shell" /\ session.at = "prompt"
    /\ session.opened = 1

(***************************************************************************)
(* The three command adapters applied to every bounded command under every *)
(* behaviour of backend and network.                                       *)
(***************************************************************************)
\* bytes of an rpcBody, at most
MaxBody == 5

\* the rpcBody of a config-protocol call: the bytes of `<rpc` and the
\* delimiter, in any order
Bodies == StrUpTo({"<", "r", "p", "c", Delim}, MaxBody)

\* what can happen to a line-protocol call, the write of exit failing included
TelnetRuns ==
    TelnetEnvs \cup {[fail |-> "send_exit", stdout |-> <<"o">>, stderr |-> <<>>]}

\* what can happen to a config-protocol call: the write of the close envelope
\* may fail, and the server's own hello may have arrived when a write fails
NetconfRuns ==
    NetconfEnvs
    \cup {[fail |-> f, stdout |-> <<"o">>, stderr |-> <<>>] : f \in {"hello", "rpc", "close"}}

AdapterInputs ==
    [op : {"input"}, adapter : {"ssh"}, command : Commands, env : SSHEnvs]
    \cup [op : {"input"}, adapter : {"telnet"}, command : Commands, env : TelnetRuns]
    \cup [op : {"input"}, adapter : {"netconf"}, command : Bodies, env : NetconfRuns]

InitAdapters ==
    /\ cfg = RegistryLab
    /\ pc = "idle"
    /\ req \in AdapterInputs
    /\ resp = NoResp
    /\ lookups = <<>>
    /\ calls = <<>>
    /\ sess = NoSession
    /\ SubIdle
    /\ BastionIdle

\* one call of the adapter the input names, on the device h1: what it returns
\* and what it wrote to the backend meanwhile
RunAdapter(adapter, result, writes) ==
    /\ pc = "idle"
    /\ req.adapter = adapter
    /\ pc' = "done"
    /\ req' = [req EXCEPT !.op = "run"]
    /\ resp' = [output |-> result.output, err |-> result.err, writes |-> writes]
    /\ UNCHANGED <<bastionVars, subVars, cfg, lookups, calls, sess>>

RunSSH ==
    RunAdapter("ssh", ExecuteSSHCommand("h1", 22, <<"u">>, <<"p">>, req.command, req.env),
               <<>>)

RunTelnet ==
    RunAdapter("telnet",
               ExecuteTelnetCommand("h1", 23, <<"u">>, <<"p">>, req.command, req.env),
               TelnetWrites(<<"u">>, <<"p">>, req.command, req.env))

RunNetconf ==
    RunAdapter("netconf",
               ExecuteNetconfCommand("h1", 830, <<"u">>, <<"p">>, req.command, req.env),
               NetconfWrites(req.command, req.env))

NextAdapters == RunSSH \/ RunTelnet \/ RunNetconf

SpecAdapters == InitAdapters /\ [][NextAdapters]_vars

(***************************************************************************)
(* Claims about the adapters (SpecAdapters).                               *)
(***************************************************************************)
Ran(adapter) == pc = "done" /\ req.op = "run" /\ req.adapter = adapter

\* the messages the adapter wrote in full, in order
Written == [i \in 1..Len(resp.writes) |-> resp.writes[i].msg]

EndsWithDelim(msg) == msg # <<>> /\ msg[Len(msg)] = Delim

\* C31: for every rpcBody the config adapter writes the hello, then the RPC,
\* then the close-session RPC, and each of the three ends with the delimiter
\* `]]>]]>` before the next one starts, whether the body was wrapped or, as
\* it holds `<rpc`, forwarded verbatim.
C31_MessageOrdering ==
    (Ran("netconf") /\ req.env.fail = "none") =>
        /\ Len(Written) = 3
        /\ Written[1] = NetconfHello
        /\ Written[3] = NetconfClose
        /\ Contains(Written[2], req.command)
        /\ \A i \in 1..3 : EndsWithDelim(Written[i])

\* the config-protocol session was started: session.Start returned nil
SessionStarted == req.env.fail \in {"hello", "rpc", "close", "none"}

\* C32: once the session has been started the config adapter sends the
\* close-session envelope on every path, also when the send of the hello or of
\* the RPC failed, and a failure to send the close envelope itself is
\* ignored.
C32_CloseBestEffort ==
    (Ran("netconf") /\ SessionStarted) =>
        /\ resp.writes # <<>>
        /\ resp.writes[Len(resp.writes)].msg = NetconfClose
        /\ req.env.fail = "close" => resp.err = Nil

\* what the line adapter has read when the call fails at the step env.fail
TelnetRead(env) ==
    LET at == TelnetFailsAt(env)
    IN (IF at > 3 THEN <<"banner">> ELSE <<>>)
       \o (IF at > 5 THEN <<"prompt">> ELSE <<>>)
       \o (IF at > 7 THEN <<"login">> ELSE <<>>)

\* C33: an i/o timeout on the read after the command is the end of the
\* output: the line adapter still sends exit and returns success with the
\* output accumulated so far; any other error on that read is a failure; a
\* failure to write exit never turns a success into a failure.
C33_TimeoutIsEndOfOutput ==
    Ran("telnet") =>
        /\ req.env.fail = "timeout" =>
              /\ resp.err = Nil
              /\ resp.output = TelnetRead(req.env) \o req.env.stdout
              /\ resp.writes[Len(resp.writes)] =
                     Wrote(<<"e", "x", "i", "t", "\r", "\n">>, TRUE)
        /\ req.env.fail = "read" => resp.err # Nil
        /\ req.env.fail = "send_exit" =>
              /\ resp.err = Nil
              /\ resp.output = TelnetRead(req.env) \o req.env.stdout

\* the read after the command timed out with nothing read: the call
\* succeeded with banner and prompts as its output, exit sent as fourth line
C33_Witness ==
    /\ Ran("telnet")
    /\ req.env.fail = "timeout" /\ req.env.stdout = <<>>
    /\ resp.err = Nil
    /\ resp.output = <<"banner", "prompt", "login">>
    /\ Len(resp.writes) = 4

\* what the adapter has read from the backend when the call fails
Accumulated ==
    CASE req.adapter = "telnet" -> TelnetRead(req.env)
      [] req.adapter = "ssh" ->
            IF req.env.fail = "run" THEN req.env.stdout ELSE <<>>
      [] req.adapter = "netconf" -> req.env.stdout

\* C34: when a call of one of the three adapters fails after some backend
\* output has been read (banner or prompts for the line adapter, standard
\* output for the shell and the config adapter), the returned output carries
\* the data accumulated up to the failure and is not empty.
C34_PartialOutput ==
    (pc = "done" /\ req.op = "run" /\ resp.err # Nil /\ Accumulated # <<>>) =>
        /\ resp.output # <<>>
        /\ Contains(resp.output, Accumulated)

(***************************************************************************)
(* Claims about the telemetry handles and the pumps of Subscribe           *)
(* (SpecGnmi, SpecSub).                                                    *)
(***************************************************************************)
TelemetryDone == pc = "done" /\ req.op \in {"Capabilities", "Get", "Set", "Subscribe"}

\* the backend handles of the telemetry RPC that are open
OpenHandles == {i \in 1..Len(calls) : calls[i].adapter = "gnmi" /\ calls[i].open}

\* the RPC got its target and the registry holds the device
TargetResolved ==
    /\ req.op = "Subscribe" => req.first = "msg"
    /\ LET t == getTargetFromContext(req.md, req.prefix)
       IN t.err = Nil /\ GetDeviceByFQDN(cfg, t.fqdn).err = Nil

\* C35: in Capabilities, Get, Set and Subscribe every backend handle opened
\* successfully is closed by the time the RPC returns, on every return path,
\* and no handle is open, or was opened, when target extraction or
\* resolution failed.
C35_NoHandleLeak ==
    /\ TelemetryDone => OpenHandles = {} /\ backendConn # "open"
    /\ (req.op \in {"Capabilities", "Get", "Set", "Subscribe"} /\ ~TargetResolved) =>
          GnmiConns = {} /\ backendConn = "none"
    /\ backendConn = "open" => Cardinality(OpenHandles) = 1 /\ pc = "pumping"

\* Subscribe has returned on a pump's error with the handle it dialed closed
C35_Witness ==
    /\ TelemetryDone
    /\ req.op = "Subscribe"
    /\ resp.status \notin {"OK", "InvalidArgument", "Unavailable", "Internal"}
    /\ Cardinality(GnmiConns) = 1
    /\ OpenHandles = {}
    /\ backendConn = "closed"

\* the reports a pump has sent on errChan
ReportsOf(pump) == {i \in 1..Len(reports) : reports[i].pump = pump}

\* the pump is running: it can still reach a send on errChan
Running(position) == position \in {"recv", "send"}

\* C36: each of the two pumps writes at most one completion signal, so errChan
\* never holds more than two signals and its capacity of 2 is never exceeded;
\* no pump blocks on reporting its completion, also after the handler has
\* returned on the first signal.
C36_CompletionChannel ==
    /\ \A pump \in {"c2b", "b2c"} : Cardinality(ReportsOf(pump)) <= 1
    /\ Len(errChan) <= 2
    /\ Len(errChan) <= ErrChanCap
    /\ (Running(c2b) \/ Running(b2c)) => Len(errChan) < ErrChanCap
    /\ c2b = "send" => ENABLED C2BSend
    /\ b2c = "send" => ENABLED B2CSend

\* the handler returned on the first signal and the other pump's signal was
\* accepted by the channel afterwards
C36_Witness ==
    /\ pc = "done"
    /\ Len(reports) = 2
    /\ Len(errChan) = 1
    /\ c2b = "failed"
    /\ b2c \in {"eof", "failed"}

\* one step of the streams: who wrote on which
SingleWriterStep ==
    /\ toBackend' # toBackend =>
          \/ /\ pc = "idle" /\ ~PumpsStarted
             /\ toBackend' = <<1>>
          \/ /\ PumpsStarted /\ c2b = "send" /\ c2b' = "recv" /\ b2c' = b2c
             /\ toBackend' = Append(toBackend, nrecv)
    /\ closeSend' # closeSend =>
          PumpsStarted /\ c2b = "recv" /\ c2b' = "eof" /\ b2c' = b2c /\ toBackend' = toBackend
    /\ toClient' # toClient =>
          PumpsStarted /\ b2c = "send" /\ b2c' = "recv" /\ c2b' = c2b
    /\ (~PumpsStarted /\ PumpsStarted') => pc = "idle" /\ toBackend' = <<1>>

\* the first client message is at the backend before either pump runs, and
\* nothing is sent to the backend after the half-close
FirstMessageFirst ==
    /\ PumpsStarted => toBackend # <<>> /\ toBackend[1] = 1
    /\ ~PumpsStarted => b2c = "idle" /\ toClient = <<>> /\ ~closeSend
    /\ closeSend => c2b = "eof"

\* C37: in Subscribe each stream direction has a single writer at any moment:
\* the handler sends the first client message to the backend before either
\* pump is started, after that only the client-to-backend pump sends or
\* half-closes on the backend stream and only the backend-to-client pump sends
\* on the client stream, and the first message precedes every later one.
C37_SingleWriter == []FirstMessageFirst /\ [][SingleWriterStep]_vars

\* both pumps have written on their stream after the handler's first send
C37_Witness ==
    /\ toBackend = <<1, 2>>
    /\ toClient # <<>>
    /\ closeSend

(***************************************************************************)
(* Claims about the tasks of the bastion (SpecBastion).                    *)
(***************************************************************************)
\* C38: the window-change forwarding task started for a proxy handoff ends
\* when that handoff ends (backend session ended or shell start failed): at
\* most one forwarding task per inbound session reads the session's request
\* channel, and after the handoff no task holds a reference to the ended
\* backend session.
C38_ForwardingTaskEnds ==
    /\ Cardinality(session.watchers) <= 1
    /\ \A to \in session.watchers : to = OpenSession(session)

(***************************************************************************)
(* Shutdown of the bastion: Stop() closes the listener under the accept     *)
(* loop of Start().                                                        *)
(***************************************************************************)
\* iterations of the accept loop on a closed listener that are followed
MaxAcceptErrors == 3

\* BastionServer.Stop: close the listener if there is one
Stop ==
    /\ bastion.listener = "open"
    /\ bastion' = [bastion EXCEPT !.listener = "closed"]
    /\ UNCHANGED <<cfg, pc, req, resp, lookups, calls, sess, subVars, session>>

\* one iteration of Start's loop on a closed listener: Accept returns an
\* error, the error is logged, and the loop continues
AcceptError ==
    /\ bastion.state = "listening"
    /\ bastion.listener = "closed"
    /\ bastion.acceptErrors < MaxAcceptErrors
    /\ bastion' = [bastion EXCEPT !.acceptErrors = @ + 1]
    /\ UNCHANGED <<cfg, pc, req, resp, lookups, calls, sess, subVars, session>>

NextShutdown == NewBastionServer \/ Start \/ handleConnection \/ Stop \/ AcceptError

SpecShutdown == InitBastion /\ [][NextShutdown]_vars

\* C39: after Stop() has closed the listener the accept loop of Start()
\* returns to its caller; it does not keep iterating on the accept error of
\* the closed listener.
C39_AcceptLoopReturns ==
    /\ bastion.acceptErrors > 0 => bastion.state # "listening"
    /\ bastion.acceptErrors <= 1

\* C40: handling an exec request never fails abnormally, whatever its
\* payload: for every payload length, one shorter than the four-byte length
\* prefix included, the bastion either enters the command path with the bytes
\* after the prefix or declines the request, and the handler of the channel
\* and the gateway process keep running.
C40_ExecNeverPanics ==
    /\ bastion.state # "crashed"
    /\ session.cause # "panic"
    /\ session.request.type = "exec" => session.mode = "exec"

====
